---- MODULE Spec2Model ----
(***************************************************************************)
(* Kindelia HVM runtime (src/src/hvm.rs): the graph memory, the rewriter,  *)
(* the IO interpreter, the statement executor and the rollback store.      *)
(*                                                                         *)
(* Representation.                                                         *)
(*  - A 128-bit link word `tag:8 | ext:60 | val:60` is the record          *)
(*    [tag, ext, val]; the word 0 is W(0,0,0) and the all-ones word        *)
(*    U128_NONE is NoneLnk.  TLC integers are 32 bits wide, so numbers and *)
(*    identifiers are kept below 2^31; on that range the packing           *)
(*    (t*TAG) | (e*EXT) | v and the projections get_tag/get_ext/get_val    *)
(*    are exactly the record constructor and its fields.                   *)
(*  - A Blob (data: Vec<u128>, used: Vec<usize>) is the function from its  *)
(*    written indices `used` to their words; every other cell holds        *)
(*    U128_NONE.                                                           *)
(*  - HashMaps are functions with finite domains.                          *)
(*  - The Rollback list is the sequence of its Cons cells, top first.      *)
(*  - The scalar sentinels U128_NONE / I128_NONE are -1 / -(2^31-1).       *)
(*  - A number of more than 60 bits is the pair (hi, lo) of its upper and  *)
(*    lower 60 bits, each below 2^30 in the model.                         *)
(*  - The interpreter (create_term, reduce, collect, compute_at, run_io,   *)
(*    run_action) is a machine: the code's call stack is the sequence of   *)
(*    frames `ks`, a frame records the function and the position in it,    *)
(*    and a step runs the code from that position to the next call or      *)
(*    return.  A statement runs the machine until its stack is empty.      *)
(***************************************************************************)
EXTENDS Integers, Sequences, FiniteSets, TLC

VARIABLES
  draw,             \* Runtime.draw: staging heap of the running statement
  heap,             \* Runtime.heap: the canonical current heap
  back,             \* Runtime.back: the rollback stack, top first
  nuls,             \* Runtime.nuls: pool of empty heaps
  VARS_DATA,        \* the global scratch table of create_term
  status,           \* "ok", or the panic / undefined behaviour that ended the process
  overflow_checks,  \* build profile: TRUE = arithmetic overflow panics, FALSE = wraps
  last,             \* observation of the last operation performed
  nstmt,            \* number of statements run so far
  ntick,            \* number of tick() calls so far
  nroll,            \* number of rollback() calls so far
  mark              \* the disk as read through the runtime right after the marked ticks

vars == <<draw, heap, back, nuls, VARS_DATA, status, overflow_checks, last, nstmt, ntick,
          nroll, mark>>

----------------------------------------------------------------------------
\* Constants (hvm.rs 137-208)

U128_PER_MB == 131072
HEAP_SIZE == 1024 * U128_PER_MB
VARS_SIZE == 262144

DP0 == 0
DP1 == 1
VAR == 2
ARG == 3
ERA == 4
LAM == 5
APP == 6
PAR == 7
CTR == 8
FUN == 9
OP2 == 10
NUM == 11

ADD == 0
SUB == 1
MUL == 2
DIV == 3
MOD == 4
AND == 5
OR  == 6
XOR == 7
SHL == 8
SHR == 9
LTN == 10
LTE == 11
EQL == 12
GTE == 13
GTN == 14
NEQ == 15

VAR_NONE == 262143
U128_NONE == -1
I128_NONE == -2147483647

\* The number of empty heaps init_runtime preallocates.
NULS_INIT == 8

\* The keep counter value at which a snapshot is pushed down.
KEEP_MAX == 15

\* A link word and the two distinguished words.
W(t, e, v) == [tag |-> t, ext |-> e, val |-> v]
ZeroLnk == W(0, 0, 0)
NoneLnk == W(255, U128_NONE, U128_NONE)

\* Option<T>
Some(x) == [some |-> TRUE, val |-> x]
None == [some |-> FALSE, val |-> ZeroLnk]

\* The empty map / the empty list of written cells.
EmptyMap == [k \in {} |-> 0]

----------------------------------------------------------------------------
\* Rollback: sentinel-aware merges (hvm.rs 213-219)

absorb_u128(a, b, overwrite) ==
  IF b = U128_NONE THEN a ELSE IF overwrite \/ a = U128_NONE THEN b ELSE a

absorb_i128(a, b, overwrite) ==
  IF b = I128_NONE THEN a ELSE IF overwrite \/ a = I128_NONE THEN b ELSE a

\* Blob (hvm.rs 339-375)

Blob_write(b, idx, val) == (idx :> val) @@ b

Blob_read(b, idx) == IF idx \in DOMAIN b THEN b[idx] ELSE NoneLnk

Blob_clear(b) == EmptyMap

\* an absorb that copies no cell
Blob_absorb_self(self, other, overwrite) == self

Blob_absorb(self, other, overwrite) ==
  [i \in (DOMAIN self) \cup (DOMAIN other) |->
     IF i \in DOMAIN other /\ (overwrite \/ Blob_read(self, i) = NoneLnk)
       THEN other[i] ELSE self[i]]

\* Disk (hvm.rs 390-407): write replaces
Disk_write(d, fid, val) == (fid :> val) @@ d

Disk_read(d, fid) == IF fid \in DOMAIN d THEN Some(d[fid]) ELSE None

Disk_absorb(self, other, overwrite) ==
  [k \in (DOMAIN self) \cup (DOMAIN other) |->
     IF k \in DOMAIN other /\ (overwrite \/ k \notin DOMAIN self)
       THEN Disk_write(self, k, other[k])[k] ELSE self[k]]

\* a write that replaces the stored code
File_write_replacing(f, fid, val) == (fid :> val) @@ f

\* File (hvm.rs 409-428): write inserts only when the key is absent
File_write(f, fid, val) ==
  IF fid \notin DOMAIN f
    THEN (fid :> val) @@ f
    ELSE f

File_absorb(self, other, overwrite) ==
  [k \in (DOMAIN self) \cup (DOMAIN other) |->
     IF k \in DOMAIN other /\ (overwrite \/ k \notin DOMAIN self)
       THEN File_write(self, k, other[k])[k] ELSE self[k]]

\* Arit (hvm.rs 430-449): write inserts only when absent, absorb inserts directly
Arit_write(a, fid, val) ==
  IF fid \notin DOMAIN a
    THEN (fid :> val) @@ a
    ELSE a

Arit_read(a, fid) == IF fid \in DOMAIN a THEN a[fid] ELSE U128_NONE

Arit_absorb(self, other, overwrite) ==
  [k \in (DOMAIN self) \cup (DOMAIN other) |->
     IF k \in DOMAIN other /\ (overwrite \/ k \notin DOMAIN self)
       THEN other[k] ELSE self[k]]

\* Heap (hvm.rs 221-330)

init_heap ==
  [data |-> EmptyMap, disk |-> EmptyMap, file |-> EmptyMap, arit |-> EmptyMap,
   tick |-> U128_NONE, funs |-> U128_NONE, dups |-> U128_NONE, cost |-> U128_NONE,
   mana |-> U128_NONE, size |-> I128_NONE, next |-> U128_NONE]

\* self after self.absorb(other, overwrite)
Heap_absorb(self, other, overwrite) ==
  [data |-> Blob_absorb(self.data, other.data, overwrite),
   disk |-> Disk_absorb(self.disk, other.disk, overwrite),
   file |-> File_absorb(self.file, other.file, overwrite),
   arit |-> Arit_absorb(self.arit, other.arit, overwrite),
   tick |-> absorb_u128(self.tick, other.tick, overwrite),
   funs |-> absorb_u128(self.funs, other.funs, overwrite),
   dups |-> absorb_u128(self.dups, other.dups, overwrite),
   cost |-> absorb_u128(self.cost, other.cost, overwrite),
   mana |-> absorb_u128(self.mana, other.mana, overwrite),
   size |-> absorb_i128(self.size, other.size, overwrite),
   next |-> absorb_u128(self.next, other.next, overwrite)]

\* other after self.absorb(other, _): its cells are cleared and its maps drained,
\* its scalars stay.
Heap_drained(other) ==
  [other EXCEPT !.data = Blob_clear(other.data), !.disk = EmptyMap,
                !.file = EmptyMap, !.arit = EmptyMap]

\* a clear that forgets the allocation cursor
Heap_clear_keeps_next(h) ==
  [data |-> Blob_clear(h.data), disk |-> EmptyMap, file |-> EmptyMap, arit |-> EmptyMap,
   tick |-> U128_NONE, funs |-> U128_NONE, dups |-> U128_NONE, cost |-> U128_NONE,
   mana |-> U128_NONE, size |-> I128_NONE, next |-> h.next]

\* Heap::clear (hvm.rs 301-313)
Heap_clear(h) ==
  [data |-> Blob_clear(h.data), disk |-> EmptyMap, file |-> EmptyMap, arit |-> EmptyMap,
   tick |-> U128_NONE, funs |-> U128_NONE, dups |-> U128_NONE, cost |-> U128_NONE,
   mana |-> U128_NONE, size |-> I128_NONE, next |-> U128_NONE]

\* a push that keeps every snapshot
rollback_push_all(elem, bk) ==
  [included |-> TRUE, drop |-> [some |-> FALSE, val |-> init_heap],
   back |-> <<[keep |-> 0, head |-> elem]>> \o bk]

\* rollback_push (hvm.rs 463-496).  Result: [included, drop: Option<Heap>, back].
RECURSIVE rollback_push(_, _)
rollback_push(elem, bk) ==
  IF bk = <<>>
    THEN [included |-> TRUE, drop |-> [some |-> FALSE, val |-> init_heap],
          back |-> <<[keep |-> 0, head |-> elem]>>]
    ELSE LET keep == bk[1].keep
             head == bk[1].head
             tail == Tail(bk)
         IN IF keep = KEEP_MAX
              THEN LET sub == rollback_push(head, tail)
                       merge == (~sub.included) /\ sub.drop.some
                       elem1 == IF merge THEN Heap_absorb(elem, sub.drop.val, FALSE) ELSE elem
                       deleted == IF merge THEN Some(Heap_clear(sub.drop.val)) ELSE sub.drop
                   IN [included |-> TRUE, drop |-> deleted,
                       back |-> <<[keep |-> 0, head |-> elem1]>> \o sub.back]
              ELSE [included |-> FALSE, drop |-> Some(elem),
                    back |-> <<[keep |-> keep + 1, head |-> head]>> \o tail]

----------------------------------------------------------------------------
\* Runtime (hvm.rs 127-132, 498-509).  A runtime value bundles the variables:
\* rt.vars is VARS_DATA, rt.oc the build profile, rt.rand the values fastrand
\* will produce next, rt.status the first failure met.

Fail(rt, msg) == IF rt.status = "ok" THEN [rt EXCEPT !.status = msg] ELSE rt

RV(rt, v) == [rt |-> rt, v |-> v]

init_runtime(oc) ==
  [draw |-> init_heap, heap |-> init_heap, back |-> <<>>,
   nuls |-> [i \in 1..NULS_INIT |-> init_heap],
   vars |-> EmptyMap, status |-> "ok", oc |-> oc, rand |-> <<>>]

\* a + b on u128: overflow panics when the build checks it and wraps otherwise.
\* Only the overflow of U128_NONE + 1 is within the modelled range.
add_u128(rt, a, b) ==
  IF a = U128_NONE /\ b = 1
    THEN IF rt.oc THEN RV(Fail(rt, "panic: attempt to add with overflow"), 0)
                  ELSE RV(rt, 0)
    ELSE RV(rt, a + b)

\* Heap writers and readers (hvm.rs 763-886)

Min(S) == CHOOSE x \in S : \A y \in S : x <= y

\* The layers get_with walks: draw, heap, then the heads of back from the
\* youngest (hvm.rs 769-791).
Layers(rt) == <<rt.draw, rt.heap>> \o [i \in 1..Len(rt.back) |-> rt.back[i].head]

\* a lookup that answers with the deepest layer that holds a value
get_with_deepest(zero, none, gots) ==
  LET hits == {i \in 1..Len(gots) : gots[i] # none}
  IN IF hits = {} THEN zero ELSE gots[CHOOSE i \in hits : \A j \in hits : j <= i]

\* get_with: gots[i] is `get` applied to the i-th layer; the first value that
\* is not `none` is returned, `zero` when every layer is absent.
get_with(zero, none, gots) ==
  LET hits == {i \in 1..Len(gots) : gots[i] # none}
  IN IF hits = {} THEN zero ELSE gots[Min(hits)]

\* get_unchecked on an index outside the vector is undefined behaviour
Runtime_write(rt, idx, val) ==
  IF idx < 0 \/ idx >= HEAP_SIZE
    THEN Fail(rt, "ub: heap index out of bounds")
    ELSE [rt EXCEPT !.draw.data = Blob_write(@, idx, val)]

Runtime_read(rt, idx) ==
  LET L == Layers(rt)
  IN get_with(ZeroLnk, NoneLnk, [i \in 1..Len(L) |-> Blob_read(L[i].data, idx)])

write_disk(rt, fid, val) == [rt EXCEPT !.draw.disk = Disk_write(@, fid, val)]

read_disk(rt, fid) ==
  LET L == Layers(rt)
  IN get_with(None, None, [i \in 1..Len(L) |-> Disk_read(L[i].disk, fid)])

get_func(rt, fid) ==
  LET layers == <<rt.draw, rt.heap>> \o [i \in 1..Len(rt.back) |-> rt.back[i].head]
      hits == {i \in 1..Len(layers) : fid \in DOMAIN layers[i].file}
  IN IF hits = {} THEN None ELSE Some(layers[Min(hits)].file[fid])

set_arity(rt, fid, arity) == [rt EXCEPT !.draw.arit = Arit_write(@, fid, arity)]

get_dups(rt) ==
  LET L == Layers(rt) IN get_with(0, U128_NONE, [i \in 1..Len(L) |-> L[i].dups])
get_cost(rt) ==
  LET L == Layers(rt) IN get_with(0, U128_NONE, [i \in 1..Len(L) |-> L[i].cost])

\* a set_cost that stores nothing
set_cost_dropped(rt, cost) == rt

set_cost(rt, cost) == [rt EXCEPT !.draw.cost = cost]
get_size(rt) ==
  LET L == Layers(rt) IN get_with(0, I128_NONE, [i \in 1..Len(L) |-> L[i].size])
set_size(rt, size) == [rt EXCEPT !.draw.size = size]
get_next(rt) ==
  LET L == Layers(rt) IN get_with(0, U128_NONE, [i \in 1..Len(L) |-> L[i].next])
set_next(rt, next) == [rt EXCEPT !.draw.next = next]

\* tick (hvm.rs 704-719).  The method takes the runtime by value; the runtime
\* it leaves in `self` is the result.
tick(rt) ==
  LET absorbed(rt1) ==
        [rt1 EXCEPT !.heap = Heap_absorb(rt1.heap, rt1.draw, TRUE),
                    !.draw = Heap_clear(Heap_drained(rt1.draw))]
      pushed(rt2, push) ==
        IF push.drop.some
          THEN [rt2 EXCEPT !.back = push.back, !.heap = push.drop.val]
        ELSE IF Len(rt2.nuls) > 0
          THEN [rt2 EXCEPT !.back = push.back,
                           !.heap = rt2.nuls[Len(rt2.nuls)],
                           !.nuls = SubSeq(rt2.nuls, 1, Len(rt2.nuls) - 1)]
          ELSE Fail([rt2 EXCEPT !.back = push.back], "panic: Not enough heaps.")
      push(rt2) == pushed(rt2, rollback_push(rt2.heap, rt2.back))
      ticked(sum) ==
        IF sum.rt.status # "ok" THEN sum.rt
        ELSE push(absorbed([sum.rt EXCEPT !.draw.tick = sum.v]))
  IN ticked(add_u128(rt, rt.draw.tick, 1))

\* u128 comparison a > b, U128_NONE being the largest value
gt_u128(a, b) == IF a = U128_NONE THEN b # U128_NONE ELSE b # U128_NONE /\ a > b

\* The loop of rollback (hvm.rs 730-748): heads younger than the target are
\* cleared and pushed to the pool.  Result: [back, nuls].
RECURSIVE rollback_loop(_, _, _)
rollback_loop(bk, pool, target) ==
  IF bk # <<>> /\ gt_u128(bk[1].head.tick, target)
    THEN rollback_loop(Tail(bk), Append(pool, Heap_clear(bk[1].head)), target)
    ELSE [back |-> bk, nuls |-> pool]

\* rollback (hvm.rs 723-761)
rollback(rt, target) ==
  LET moved(lp) ==
        IF lp.back # <<>>
          THEN [rt EXCEPT !.back = Tail(lp.back), !.heap = lp.back[1].head,
                          !.nuls = lp.nuls]
        ELSE IF Len(lp.nuls) > 0
          THEN [rt EXCEPT !.back = <<>>, !.heap = lp.nuls[Len(lp.nuls)],
                          !.nuls = SubSeq(lp.nuls, 1, Len(lp.nuls) - 1)]
          ELSE Fail([rt EXCEPT !.back = <<>>, !.nuls = lp.nuls],
                    "panic: Impossible error.")
  IN IF gt_u128(rt.heap.tick, target)
       THEN moved(rollback_loop(rt.back, rt.nuls, target))
       ELSE rt

----------------------------------------------------------------------------
\* The IO constructors (hvm.rs 193-208).  The packed names "IO.done", ... are
\* 41-bit numbers; the model keeps their low 31 bits, which are pairwise
\* distinct and differ from every identifier the modelled statements use.
\* Identifiers are only ever compared.
IO_DONE == 1084439721
IO_LOAD == 1086536040
IO_SAVE == 1088315049
IO_CALL == 1084120112
IO_FROM == 1084976369

GET_ARITY(fid) ==
  IF fid = IO_DONE THEN 1
  ELSE IF fid = IO_LOAD THEN 1
  ELSE IF fid = IO_SAVE THEN 2
  ELSE IF fid = IO_CALL THEN 2
  ELSE IF fid = IO_FROM THEN 1
  ELSE U128_NONE

get_arity(rt, fid) ==
  LET L == Layers(rt)
  IN IF GET_ARITY(fid) # U128_NONE THEN GET_ARITY(fid)
     ELSE get_with(0, U128_NONE, [i \in 1..Len(L) |-> Arit_read(L[i].arit, fid)])

\* Constructors and getters (hvm.rs 898-971)
Var(pos) == W(VAR, 0, pos)
Dp0(col, pos) == W(DP0, col, pos)
Dp1(col, pos) == W(DP1, col, pos)
Arg(pos) == W(ARG, 0, pos)
Era == W(ERA, 0, 0)
Lam(pos) == W(LAM, 0, pos)
App(pos) == W(APP, 0, pos)
Par(col, pos) == W(PAR, col, pos)
Op2(ope, pos) == W(OP2, ope, pos)
Num(val) == W(NUM, 0, val)
\* Num(val) for a val of more than 60 bits, val = hi * 2^60 + lo: the number
\* fills the ext and val fields of the word
U120(hi, lo) == [hi |-> hi, lo |-> lo]
Num_u120(n) == W(NUM, n.hi, n.lo)
Ctr(fun, pos) == W(CTR, fun, pos)
Fun(fun, pos) == W(FUN, fun, pos)

get_tag(lnk) == lnk.tag
get_ext(lnk) == lnk.ext
get_val(lnk) == lnk.val
get_num(lnk) == U120(lnk.ext, lnk.val)
get_loc(lnk, arg) == get_val(lnk) + arg

\* A u128 that holds a whole link word, used as a location: `as usize` keeps
\* the low 64 bits (val and the low 4 bits of ext), and (ARG * TAG) | pos ors
\* the tag bits.  HEAP_SIZE stands for any index beyond the heap.
as_usize(w) == IF w.ext % 16 = 0 THEN w.val ELSE HEAP_SIZE
Arg_u128(w) == W((w.tag \div 4) * 4 + ARG, w.ext, w.val)

\* Memory (hvm.rs 976-1032)
ask_lnk(rt, loc) == Runtime_read(rt, loc)
ask_arg(rt, term, arg) == ask_lnk(rt, get_loc(term, arg))

\* link where the location is a whole word
link_u128(rt, locw, lnk) ==
  LET back_link(rt1) ==
        IF get_tag(lnk) <= VAR
          THEN Runtime_write(rt1, get_loc(lnk, get_tag(lnk) % 2), Arg_u128(locw))
          ELSE rt1
  IN back_link(Runtime_write(rt, as_usize(locw), lnk))

link(rt, loc, lnk) == link_u128(rt, W(0, 0, loc), lnk)

\* alloc: a failed probe restarts at the next position fastrand produces
RECURSIVE alloc_loop(_, _)
alloc_loop(rt, size) ==
  LET probe(index) ==
        IF index <= HEAP_SIZE - size
           /\ \A i \in 0..(size - 1) : Runtime_read(rt, index + i) = ZeroLnk
          THEN RV(set_size(set_next(rt, index + size), get_size(rt) + size), index)
        ELSE IF rt.rand = <<>>
          THEN RV(Fail(rt, "hang: alloc finds no empty run"), 0)
        ELSE alloc_loop(set_next([rt EXCEPT !.rand = Tail(@)], Head(rt.rand)), size)
  IN IF rt.status # "ok" THEN RV(rt, 0) ELSE probe(get_next(rt))

alloc(rt, size) == IF size = 0 THEN RV(rt, 0) ELSE alloc_loop(rt, size)

clear(rt, loc, size) ==
  LET locs == {loc + i : i \in 0..(size - 1)}
      resize(rt1) == set_size(rt1, get_size(rt1) - size)
  IN IF \E i \in 0..(size - 1) : Runtime_read(rt, loc + i) = ZeroLnk
       THEN Fail(rt, "panic: nope")
     ELSE IF size > 0 /\ (loc < 0 \/ loc + size > HEAP_SIZE)
       THEN Fail(rt, "ub: heap index out of bounds")
     ELSE resize([rt EXCEPT !.draw.data = [i \in locs |-> ZeroLnk] @@ @])

\* Terms (hvm.rs 18-27)
TVar(name) == [t |-> "Var", name |-> name]
TDup(nam0, nam1, expr, body) ==
  [t |-> "Dup", nam0 |-> nam0, nam1 |-> nam1, expr |-> expr, body |-> body]
TLam(name, body) == [t |-> "Lam", name |-> name, body |-> body]
TApp(func, argm) == [t |-> "App", func |-> func, argm |-> argm]
TCtr(name, args) == [t |-> "Ctr", name |-> name, args |-> args]
TFun(name, args) == [t |-> "Fun", name |-> name, args |-> args]
TNum(numb) == [t |-> "Num", numb |-> U120(0, numb)]
TNum_u120(hi, lo) == [t |-> "Num", numb |-> U120(hi, lo)]
TOp2(oper, val0, val1) == [t |-> "Op2", oper |-> oper, val0 |-> val0, val1 |-> val1]

\* VARS_DATA[name]
vars_get(rt, name) == IF name \in DOMAIN rt.vars THEN Some(rt.vars[name]) ELSE None
vars_set(rt, name, w) ==
  [rt EXCEPT !.vars = (name :> w) @@ @]
vars_del(rt, name) ==
  [rt EXCEPT !.vars = EmptyMap @@ [k \in (DOMAIN @) \ {name} |-> @[k]]]

\* bind of create_term (hvm.rs 1107-1125)
bind(rt, loc, name, lnk) ==
  IF name = VAR_NONE THEN link(rt, loc, Era)
  ELSE IF name >= VARS_SIZE THEN Fail(rt, "panic: index out of bounds")
  ELSE IF vars_get(rt, name).some
    THEN link_u128(vars_del(rt, name), vars_get(rt, name).val, lnk)
    ELSE link(vars_set(rt, name, lnk), loc, Era)


----------------------------------------------------------------------------
\* The machine.  rt is the runtime, ks the call stack (the running function's
\* frame last), v the value the last return passed to its caller, log the
\* effects run_io dispatched so far.

Top(m) == m.ks[Len(m.ks)]
Below(m) == SubSeq(m.ks, 1, Len(m.ks) - 1)

\* `return v`
Return(m, rt, v) == [m EXCEPT !.rt = rt, !.ks = Below(m), !.v = v]
\* the running function moves on to the position f
Goto(m, rt, f) == [m EXCEPT !.rt = rt, !.ks = Append(Below(m), f)]
\* the running function calls `callee` and resumes at the position f
Call(m, rt, f, callee) == [m EXCEPT !.rt = rt, !.ks = Below(m) \o <<f, callee>>]

\* create_term (hvm.rs 1106-1201)

\* create_term(rt, term, loc) at its entry
KCreate(term, loc) == [k |-> "create_term", term |-> term, loc |-> loc]

\* create_term after the alloc and the binds of a node: the subterms `kids`
\* are created and linked at at + 0, at + 1, ...; i of them are done, ret
\* tells that the call for kid i has just returned; `done` is the link the
\* function returns
KKids(kids, at, i, ret, done) ==
  [k |-> "create_term:kids", kids |-> kids, at |-> at, i |-> i, ret |-> ret, done |-> done]

create_kids(m, f) ==
  LET rt1 == IF f.ret THEN link(m.rt, f.at + f.i, m.v) ELSE m.rt
      j == IF f.ret THEN f.i + 1 ELSE f.i
  IN IF j < Len(f.kids)
       THEN Call(m, rt1, [f EXCEPT !.i = j, !.ret = TRUE], KCreate(f.kids[j + 1], f.at + j))
       ELSE Return(m, rt1, f.done)

create_term(m, f) ==
  LET rt == m.rt
      term == f.term
      loc == f.loc
      node2 == alloc(rt, 2)
      node3 == alloc(rt, 3)
      nodeN == alloc(rt, Len(term.args))
  IN CASE term.t = "Var" ->
         IF term.name < VARS_SIZE
           THEN IF vars_get(rt, term.name).some
                  THEN Return(m, vars_del(rt, term.name), vars_get(rt, term.name).val)
                  ELSE Return(m, vars_set(rt, term.name, W(0, 0, loc)), Num(0))
           ELSE Return(m, rt, Num(0))
       [] term.t = "Dup" ->
         Call(m, bind(bind(node3.rt, node3.v + 0, term.nam0, Dp0(get_dups(node3.rt), node3.v)),
                      node3.v + 1, term.nam1, Dp1(get_dups(node3.rt), node3.v)),
              KCreate(term.body, loc),
              KKids(<<term.expr>>, node3.v + 2, 0, FALSE, ZeroLnk))
       [] term.t = "Lam" ->
         Goto(m, bind(node2.rt, node2.v + 0, term.name, Var(node2.v)),
              KKids(<<term.body>>, node2.v + 1, 0, FALSE, Lam(node2.v)))
       [] term.t = "App" ->
         Goto(m, node2.rt, KKids(<<term.func, term.argm>>, node2.v, 0, FALSE, App(node2.v)))
       [] term.t = "Fun" ->
         Goto(m, nodeN.rt, KKids(term.args, nodeN.v, 0, FALSE, Fun(term.name, nodeN.v)))
       [] term.t = "Ctr" ->
         Goto(m, nodeN.rt, KKids(term.args, nodeN.v, 0, FALSE, Ctr(term.name, nodeN.v)))
       [] term.t = "Num" -> Return(m, rt, Num_u120(term.numb))
       [] term.t = "Op2" ->
         Goto(m, node2.rt,
              KKids(<<term.val0, term.val1>>, node2.v, 0, FALSE, Op2(term.oper, node2.v)))

----------------------------------------------------------------------------
\* build_func (hvm.rs 1204-1297).  Option<u128> of Var.field is [some, val].
SomeInt(n) == [some |-> TRUE, val |-> n]
NoneInt == [some |-> FALSE, val |-> 0]

RECURSIVE Flatten(_)
Flatten(seqs) == IF seqs = <<>> THEN <<>> ELSE Head(seqs) \o Flatten(Tail(seqs))

\* an acceptance test that lets nested patterns and lambdas through
arg_ok_lax(a) == a.t \in {"Ctr", "Num", "Var", "Lam"}

\* the left-hand side argument `a` at position i (0-based): is it accepted,
\* its matching condition, the variables and the must-clear entries it adds
arg_ok(a) ==
  \/ a.t = "Ctr" /\ \A j \in 1..Len(a.args) : a.args[j].t = "Var"
  \/ a.t = "Num"
  \/ a.t = "Var"

arg_cond(a) ==
  IF a.t = "Ctr" THEN Ctr(a.name, 0) ELSE IF a.t = "Num" THEN Num_u120(a.numb) ELSE ZeroLnk

arg_vars(a, i) ==
  IF a.t = "Ctr"
    THEN [j \in 1..Len(a.args) |->
            [name |-> a.args[j].name, param |-> i, field |-> SomeInt(j - 1),
             erase |-> a.args[j].name = VAR_NONE]]
  ELSE IF a.t = "Var"
    THEN <<[name |-> a.name, param |-> i, field |-> NoneInt, erase |-> a.name = VAR_NONE]>>
  ELSE <<>>

arg_eras(a, i) == IF a.t = "Ctr" THEN <<<<i, Len(a.args)>>>> ELSE <<>>

build_rule(line) ==
  LET args == line[1].args
  IN [cond |-> [i \in 1..Len(args) |-> arg_cond(args[i])],
      vars |-> Flatten([i \in 1..Len(args) |-> arg_vars(args[i], i - 1)]),
      eras |-> Flatten([i \in 1..Len(args) |-> arg_eras(args[i], i - 1)]),
      body |-> line[2]]

build_func(lines) ==
  IF Len(lines) = 0 THEN None
  ELSE IF lines[1][1].t # "Fun" THEN None
  ELSE LET arity == Len(lines[1][1].args)
           ok == \A r \in 1..Len(lines) :
                   /\ lines[r][1].t = "Fun"
                   /\ Len(lines[r][1].args) = arity
                   /\ \A i \in 1..arity : arg_ok(lines[r][1].args[i])
           strict == {i \in 0..(arity - 1) :
                        \E r \in 1..Len(lines) : lines[r][1].args[i + 1].t \in {"Ctr", "Num"}}
           redux == Flatten([i \in 1..arity |-> IF (i - 1) \in strict THEN <<i - 1>> ELSE <<>>])
       IN IF ok
            THEN Some([arity |-> arity, redux |-> redux,
                       rules |-> [r \in 1..Len(lines) |-> build_rule(lines[r])]])
            ELSE None


create_app(rt, func, argm) ==
  LET node == alloc(rt, 2)
  IN RV(link(link(node.rt, node.v + 0, func), node.v + 1, argm), App(node.v))

alloc_lnk(rt, term) ==
  LET loc == alloc(rt, 1) IN RV(link(loc.rt, loc.v, term), loc.v)

alloc_app(rt, func, argm) ==
  LET app == create_app(rt, func, argm) IN alloc_lnk(app.rt, app.v)

----------------------------------------------------------------------------
\* Reduction (hvm.rs 1333-1740)

\* A stack item of reduce: host | 0x80000000 is [init |-> 1], a bare host [init |-> 0]
Item(init, host) == [init |-> init, host |-> host]

\* The rewrite rules of reduce (hvm.rs 1407-1642).  A rule is written as the
\* sequence of the heap operations its code performs, in the order of the
\* code, and exec performs them.  What the code computes from term and arg0
\* alone (locations, extensions) is a number in the sequence.  The nodes a rule
\* allocates and the cells it reads into a local are numbered in the order of
\* these operations: Node(k) is the location the k-th of them allocated,
\* Got(k) the link the k-th of them read.

\* a location: a number, or an offset into an allocated node
At(loc) == [reg |-> 0, off |-> loc]
Node(reg) == [reg |-> reg, off |-> 0]
Plus(l, off) == [reg |-> l.reg, off |-> l.off + off]

\* a value: a link word, a link word that points at a location, a cell read
\* when the operation runs, a link read earlier, or Num(c) of a number c
\* computed earlier
Word(lnk) == [kind |-> "word", lnk |-> lnk]
Ptr(lnk) == [kind |-> "ptr", lnk |-> lnk]
AskArg(term, arg) == [kind |-> "ask", loc |-> get_loc(term, arg)]
Got(reg) == [kind |-> "got", reg |-> reg]
GotNum(reg) == [kind |-> "num", reg |-> reg]

\* the operations: rt.set_cost(rt.get_cost() + 1), alloc, `let x = ask_arg(..)`,
\* link, subst, clear, and the arithmetic of op2 on two numbers
OpCost == [op |-> "cost"]
OpAlloc(size) == [op |-> "alloc", size |-> size]
OpAsk(term, arg) == [op |-> "ask", loc |-> get_loc(term, arg)]
OpLink(l, lnk) == [op |-> "link", loc |-> l, lnk |-> lnk]
OpSubst(lnk, val) == [op |-> "subst", lnk |-> lnk, val |-> val]
OpClear(loc, size) == [op |-> "clear", loc |-> loc, size |-> size]
OpNum(ope, a, b) == [op |-> "num", ope |-> ope, a |-> a, b |-> b]

\* a rule that fires: its operations, and whether reduce continues at the
\* same host with init = 1 afterwards
Fires(prog, again) == [some |-> TRUE, prog |-> prog, again |-> again]
NoRule == [some |-> FALSE, prog |-> <<>>, again |-> FALSE]

app_lam(host, term, arg0) ==
  <<OpCost,
    OpSubst(AskArg(arg0, 0), AskArg(term, 1)),
    OpLink(At(host), AskArg(arg0, 1)),
    OpClear(get_loc(term, 0), 2),
    OpClear(get_loc(arg0, 0), 2)>>

app_par(host, term, arg0) ==
  LET app0 == get_loc(term, 0)
      app1 == get_loc(arg0, 0)
      let0 == Node(1)
      par0 == Node(2)
  IN <<OpCost,
       OpAlloc(3),
       OpAlloc(2),
       OpLink(Plus(let0, 2), AskArg(term, 1)),
       OpLink(At(app0 + 1), Ptr(Dp0(get_ext(arg0), let0))),
       OpLink(At(app0 + 0), AskArg(arg0, 0)),
       OpLink(At(app1 + 0), AskArg(arg0, 1)),
       OpLink(At(app1 + 1), Ptr(Dp1(get_ext(arg0), let0))),
       OpLink(Plus(par0, 0), Word(App(app0))),
       OpLink(Plus(par0, 1), Word(App(app1))),
       OpLink(At(host), Ptr(Par(get_ext(arg0), par0)))>>

dup_lam(host, term, arg0) ==
  LET let0 == get_loc(term, 0)
      par0 == get_loc(arg0, 0)
      lam0 == Node(1)
      lam1 == Node(2)
      arg0_arg_0 == Got(3)
      term_arg_0 == Got(4)
      term_arg_1 == Got(5)
  IN <<OpCost,
       OpAlloc(2),
       OpAlloc(2),
       OpLink(At(let0 + 2), AskArg(arg0, 1)),
       OpLink(At(par0 + 1), Ptr(Var(lam1))),
       OpAsk(arg0, 0),
       OpLink(At(par0 + 0), Ptr(Var(lam0))),
       OpSubst(arg0_arg_0, Word(Par(get_ext(term), par0))),
       OpAsk(term, 0),
       OpLink(Plus(lam0, 1), Word(Dp0(get_ext(term), let0))),
       OpSubst(term_arg_0, Ptr(Lam(lam0))),
       OpAsk(term, 1),
       OpLink(Plus(lam1, 1), Word(Dp1(get_ext(term), let0))),
       OpSubst(term_arg_1, Ptr(Lam(lam1))),
       OpLink(At(host), Ptr(Lam(IF get_tag(term) = DP0 THEN lam0 ELSE lam1)))>>

dup_par_same(host, term, arg0) ==
  <<OpCost,
    OpSubst(AskArg(term, 0), AskArg(arg0, 0)),
    OpSubst(AskArg(term, 1), AskArg(arg0, 1)),
    OpLink(At(host), AskArg(arg0, IF get_tag(term) = DP0 THEN 0 ELSE 1)),
    OpClear(get_loc(term, 0), 3),
    OpClear(get_loc(arg0, 0), 2)>>

dup_par_diff(host, term, arg0) ==
  LET par0 == Node(1)
      let0 == get_loc(term, 0)
      par1 == get_loc(arg0, 0)
      let1 == Node(2)
      term_arg_0 == Got(3)
      term_arg_1 == Got(4)
  IN <<OpCost,
       OpAlloc(2),
       OpAlloc(3),
       OpLink(At(let0 + 2), AskArg(arg0, 0)),
       OpLink(Plus(let1, 2), AskArg(arg0, 1)),
       OpAsk(term, 0),
       OpAsk(term, 1),
       OpLink(At(par1 + 0), Word(Dp1(get_ext(term), let0))),
       OpLink(At(par1 + 1), Ptr(Dp1(get_ext(term), let1))),
       OpLink(Plus(par0, 0), Word(Dp0(get_ext(term), let0))),
       OpLink(Plus(par0, 1), Ptr(Dp0(get_ext(term), let1))),
       OpSubst(term_arg_0, Ptr(Par(get_ext(arg0), par0))),
       OpSubst(term_arg_1, Word(Par(get_ext(arg0), par1))),
       OpLink(At(host),
              IF get_tag(term) = DP0 THEN Ptr(Par(get_ext(arg0), par0))
              ELSE Word(Par(get_ext(arg0), par1)))>>

dup_num(host, term, arg0) ==
  <<OpCost,
    OpSubst(AskArg(term, 0), Word(arg0)),
    OpSubst(AskArg(term, 1), Word(arg0)),
    OpClear(get_loc(term, 0), 3),
    OpLink(At(host), Word(arg0))>>

\* the body of `for i in 0..arit - 1` of dup-ctr; its alloc is the
\* (i + 2)-th of the rule
dup_ctr_loop(term, arg0, ctr0, ctr1, i) ==
  LET leti == Node(i + 2)
  IN <<OpAlloc(3),
       OpLink(Plus(leti, 2), AskArg(arg0, i)),
       OpLink(At(ctr0 + i), Ptr(Dp0(get_ext(term), leti))),
       OpLink(Plus(ctr1, i), Ptr(Dp1(get_ext(term), leti)))>>

dup_ctr(arit, host, term, arg0) ==
  LET func == get_ext(arg0)
      ctr0 == get_loc(arg0, 0)
      ctr1 == Node(1)
      leti == get_loc(term, 0)
      term_arg_0 == Got(arit + 1)
      term_arg_1 == Got(arit + 2)
  IN IF arit = 0
       THEN <<OpCost,
              OpSubst(AskArg(term, 0), Word(Ctr(func, 0))),
              OpSubst(AskArg(term, 1), Word(Ctr(func, 0))),
              OpClear(get_loc(term, 0), 3),
              OpLink(At(host), Word(Ctr(func, 0)))>>
       ELSE <<OpCost, OpAlloc(arit)>>
            \o Flatten([k \in 1..(arit - 1) |-> dup_ctr_loop(term, arg0, ctr0, ctr1, k - 1)])
            \o <<OpLink(At(leti + 2), AskArg(arg0, arit - 1)),
                 OpAsk(term, 0),
                 OpLink(At(ctr0 + arit - 1), Word(Dp0(get_ext(term), leti))),
                 OpSubst(term_arg_0, Word(Ctr(func, ctr0))),
                 OpAsk(term, 1),
                 OpLink(Plus(ctr1, arit - 1), Word(Dp1(get_ext(term), leti))),
                 OpSubst(term_arg_1, Ptr(Ctr(func, ctr1))),
                 OpLink(At(host),
                        IF get_tag(term) = DP0 THEN Word(Ctr(func, ctr0))
                        ELSE Ptr(Ctr(func, ctr1)))>>

dup_era(host, term) ==
  <<OpCost,
    OpSubst(AskArg(term, 0), Word(Era)),
    OpSubst(AskArg(term, 1), Word(Era)),
    OpLink(At(host), Word(Era)),
    OpClear(get_loc(term, 0), 3)>>

\* Bitwise operators on naturals
RECURSIVE bit_op(_, _, _)
bit_op(op, a, b) ==
  IF a = 0 /\ b = 0 THEN 0
  ELSE LET x == a % 2
           y == b % 2
           z == IF op = AND THEN (IF x = 1 /\ y = 1 THEN 1 ELSE 0)
                ELSE IF op = OR THEN (IF x = 1 \/ y = 1 THEN 1 ELSE 0)
                ELSE (IF x # y THEN 1 ELSE 0)
       IN z + 2 * bit_op(op, a \div 2, b \div 2)

RECURSIVE pow2(_)
pow2(n) == IF n = 0 THEN 1 ELSE 2 * pow2(n - 1)

b2n(p) == IF p THEN 1 ELSE 0

\* the model's bound on a 60-bit field of a number
FieldMax == 1073741824

InRange(n) == n.hi >= 0 /\ n.hi < FieldMax /\ n.lo >= 0 /\ n.lo < FieldMax

\* a result the model's integers cannot hold
OutOfRange(rt) == RV(Fail(rt, "range: number beyond the modelled integers"), U120(0, 0))

\* r & 0xFFFFFFFFFFFFFFFFFFFFFFFFFFFFFF of a result r = hi * 2^60 + lo
Masked(rt, hi, lo) ==
  IF hi < FieldMax /\ lo < FieldMax THEN RV(rt, U120(hi, lo)) ELSE OutOfRange(rt)

lt_u120(a, b) == a.hi < b.hi \/ (a.hi = b.hi /\ a.lo < b.lo)

\* a << s and a >> s for s < 128, masked to 120 bits
shl_u120(rt, a, s) ==
  IF s >= 120 THEN RV(rt, U120(0, 0))
  ELSE IF s >= 60
    THEN IF s - 60 < 30 /\ a.lo * pow2(s - 60) < FieldMax
           THEN RV(rt, U120(a.lo * pow2(s - 60), 0))
           ELSE OutOfRange(rt)
  ELSE IF s < 30 /\ a.lo * pow2(s) < FieldMax /\ a.hi * pow2(s) < FieldMax
    THEN RV(rt, U120(a.hi * pow2(s), a.lo * pow2(s)))
    ELSE IF a.hi = 0 /\ a.lo = 0 THEN RV(rt, U120(0, 0)) ELSE OutOfRange(rt)

shr_u120(rt, a, s) ==
  IF s >= 120 THEN RV(rt, U120(0, 0))
  ELSE IF s >= 60
    THEN RV(rt, U120(0, IF s - 60 < 30 THEN a.hi \div pow2(s - 60) ELSE 0))
  ELSE IF s >= 30
    THEN IF a.hi = 0 THEN RV(rt, U120(0, 0)) ELSE OutOfRange(rt)
  ELSE IF a.hi % pow2(s) = 0
    THEN RV(rt, U120(a.hi \div pow2(s), a.lo \div pow2(s)))
    ELSE OutOfRange(rt)

\* the shift amount b of a << b and a >> b: 128 or more overflows, which
\* panics when the build checks it and uses b & 127 otherwise
shift_u120(rt, op, a, b) ==
  IF (b.hi > 0 \/ b.lo >= 128) /\ rt.oc
    THEN RV(Fail(rt, IF op = SHL THEN "panic: attempt to shift left with overflow"
                     ELSE "panic: attempt to shift right with overflow"), U120(0, 0))
  ELSE IF op = SHL THEN shl_u120(rt, a, b.lo % 128)
  ELSE shr_u120(rt, a, b.lo % 128)

\* The operator table of op2 on two numbers (hvm.rs 1555-1573); a and b are
\* get_num of the operands.
op2_num(rt, op, a, b) ==
  CASE op = ADD -> Masked(rt, a.hi + b.hi, a.lo + b.lo)
    [] op = SUB ->
         IF lt_u120(a, b)
           THEN IF rt.oc THEN RV(Fail(rt, "panic: attempt to subtract with overflow"), U120(0, 0))
                ELSE OutOfRange(rt)
         ELSE IF a.lo >= b.lo THEN RV(rt, U120(a.hi - b.hi, a.lo - b.lo))
         ELSE OutOfRange(rt)
    [] op = MUL ->
         IF a.hi * b.hi >= 256
           THEN IF rt.oc THEN RV(Fail(rt, "panic: attempt to multiply with overflow"), U120(0, 0))
                ELSE OutOfRange(rt)
         ELSE IF a.lo < 32768 /\ b.lo < 32768 /\ a.hi < 32768 /\ b.hi < 32768
           THEN Masked(rt, a.hi * b.lo + a.lo * b.hi, a.lo * b.lo)
         ELSE OutOfRange(rt)
    [] op = DIV ->
         IF b.hi = 0 /\ b.lo = 0 THEN RV(Fail(rt, "panic: attempt to divide by zero"), U120(0, 0))
         ELSE IF lt_u120(a, b) THEN RV(rt, U120(0, 0))
         ELSE IF a.hi = 0 THEN RV(rt, U120(0, a.lo \div b.lo))
         ELSE OutOfRange(rt)
    [] op = MOD ->
         IF b.hi = 0 /\ b.lo = 0
           THEN RV(Fail(rt, "panic: attempt to calculate the remainder with a divisor of zero"),
                   U120(0, 0))
         ELSE IF lt_u120(a, b) THEN RV(rt, a)
         ELSE IF a.hi = 0 THEN RV(rt, U120(0, a.lo % b.lo))
         ELSE OutOfRange(rt)
    [] op \in {AND, OR, XOR} -> RV(rt, U120(bit_op(op, a.hi, b.hi), bit_op(op, a.lo, b.lo)))
    [] op \in {SHL, SHR} -> shift_u120(rt, op, a, b)
    [] op = LTN -> RV(rt, U120(0, b2n(lt_u120(a, b))))
    [] op = LTE -> RV(rt, U120(0, b2n(~lt_u120(b, a))))
    [] op = EQL -> RV(rt, U120(0, b2n(a = b)))
    [] op = GTE -> RV(rt, U120(0, b2n(~lt_u120(a, b))))
    [] op = GTN -> RV(rt, U120(0, b2n(lt_u120(b, a))))
    [] op = NEQ -> RV(rt, U120(0, b2n(a # b)))
    [] OTHER -> RV(rt, U120(0, 0))

\* an op2 on two numbers that takes its first operand for both
op2_num_num_same(host, term, arg0, arg1) ==
  <<OpCost,
    OpNum(get_ext(term), get_num(arg0), get_num(arg0)),
    OpClear(get_loc(term, 0), 2),
    OpLink(At(host), GotNum(1))>>

op2_num_num(host, term, arg0, arg1) ==
  LET c == GotNum(1)
  IN <<OpCost,
       OpNum(get_ext(term), get_num(arg0), get_num(arg1)),
       OpClear(get_loc(term, 0), 2),
       OpLink(At(host), c)>>

op2_par_0(host, term, arg0, arg1) ==
  LET op20 == get_loc(term, 0)
      op21 == get_loc(arg0, 0)
      let0 == Node(1)
      par0 == Node(2)
  IN <<OpCost,
       OpAlloc(3),
       OpAlloc(2),
       OpLink(Plus(let0, 2), Word(arg1)),
       OpLink(At(op20 + 1), Ptr(Dp0(get_ext(arg0), let0))),
       OpLink(At(op20 + 0), AskArg(arg0, 0)),
       OpLink(At(op21 + 0), AskArg(arg0, 1)),
       OpLink(At(op21 + 1), Ptr(Dp1(get_ext(arg0), let0))),
       OpLink(Plus(par0, 0), Word(Op2(get_ext(term), op20))),
       OpLink(Plus(par0, 1), Word(Op2(get_ext(term), op21))),
       OpLink(At(host), Ptr(Par(get_ext(arg0), par0)))>>

op2_par_1(host, term, arg0, arg1) ==
  LET op20 == get_loc(term, 0)
      op21 == get_loc(arg1, 0)
      let0 == Node(1)
      par0 == Node(2)
  IN <<OpCost,
       OpAlloc(3),
       OpAlloc(2),
       OpLink(Plus(let0, 2), Word(arg0)),
       OpLink(At(op20 + 0), Ptr(Dp0(get_ext(arg1), let0))),
       OpLink(At(op20 + 1), AskArg(arg1, 0)),
       OpLink(At(op21 + 1), AskArg(arg1, 1)),
       OpLink(At(op21 + 0), Ptr(Dp1(get_ext(arg1), let0))),
       OpLink(Plus(par0, 0), Word(Op2(get_ext(term), op20))),
       OpLink(Plus(par0, 1), Word(Op2(get_ext(term), op21))),
       OpLink(At(host), Ptr(Par(get_ext(arg1), par0)))>>

\* call_function (hvm.rs 1613-1712): the cal-par rule on argument idx.  The
\* body of `for i in 0..arit`; an i that is not idx allocates and reads, and
\* is the (2 * k + 2)-th and (2 * k + 3)-th of the rule's allocs and reads
\* when k of the earlier i were not idx
cal_par_loop(term, argn, idx, fun0, fun1, i) ==
  LET k == IF i < idx THEN i ELSE i - 1
      leti == Node(2 * k + 2)
      argi == Got(2 * k + 3)
  IN IF i # idx
       THEN <<OpAlloc(3),
              OpAsk(term, i),
              OpLink(At(fun0 + i), Ptr(Dp0(get_ext(argn), leti))),
              OpLink(Plus(fun1, i), Ptr(Dp1(get_ext(argn), leti))),
              OpLink(Plus(leti, 2), argi)>>
       ELSE <<OpLink(At(fun0 + i), AskArg(argn, 0)),
              OpLink(Plus(fun1, i), AskArg(argn, 1))>>

cal_par(argn, arit, host, term, idx) ==
  LET funx == get_ext(term)
      fun0 == get_loc(term, 0)
      fun1 == Node(1)
      par0 == get_loc(argn, 0)
  IN <<OpCost, OpAlloc(arit)>>
     \o Flatten([k \in 1..arit |-> cal_par_loop(term, argn, idx, fun0, fun1, k - 1)])
     \o <<OpLink(At(par0 + 0), Word(Fun(funx, fun0))),
          OpLink(At(par0 + 1), Ptr(Fun(funx, fun1))),
          OpLink(At(host), Word(Par(get_ext(argn), par0)))>>

\* exec performs the operations of a rule; regs holds what its allocs and
\* reads produced so far
loc_of(regs, l) == IF l.reg = 0 THEN l.off ELSE regs[l.reg] + l.off


\* exec performs the operations of a rule, one per step; regs holds what its
\* allocs and reads produced so far
val_of(rt, regs, v) ==
  CASE v.kind = "word" -> v.lnk
    [] v.kind = "ptr" -> W(v.lnk.tag, v.lnk.ext, loc_of(regs, v.lnk.val))
    [] v.kind = "ask" -> ask_lnk(rt, v.loc)
    [] v.kind = "got" -> regs[v.reg]
    [] v.kind = "num" -> Num_u120(regs[v.reg])

KExec(prog, regs) == [k |-> "exec", prog |-> prog, regs |-> regs]

\* collect(rt, term) inside its loop: `next` is the term of this iteration
KCollect(stack, next) == [k |-> "collect", stack |-> stack, next |-> next]

\* the rule goes on with the operations left, or is done
exec_next(m, rt, prog, regs) ==
  IF prog = <<>> THEN Return(m, rt, m.v) ELSE Goto(m, rt, KExec(prog, regs))

\* subst (hvm.rs 1333-1339) as an operation of a rule
exec_subst(m, f, lnk, val) ==
  IF get_tag(lnk) # ERA
    THEN exec_next(m, link(m.rt, get_loc(lnk, 0), val), Tail(f.prog), f.regs)
    ELSE Call(m, m.rt, KExec(Tail(f.prog), f.regs), KCollect(<<>>, val))

exec_kept(m, f, d) == exec_next(m, d.rt, Tail(f.prog), Append(f.regs, d.v))

exec(m, f) ==
  LET i == Head(f.prog)
      rt == m.rt
  IN IF f.prog = <<>> THEN Return(m, rt, m.v)
     ELSE CASE i.op = "cost" ->
                 exec_next(m, set_cost(rt, get_cost(rt) + 1), Tail(f.prog), f.regs)
            [] i.op = "alloc" -> exec_kept(m, f, alloc(rt, i.size))
            [] i.op = "ask" -> exec_kept(m, f, RV(rt, ask_lnk(rt, i.loc)))
            [] i.op = "link" ->
                 exec_next(m, link(rt, loc_of(f.regs, i.loc), val_of(rt, f.regs, i.lnk)),
                           Tail(f.prog), f.regs)
            [] i.op = "subst" ->
                 exec_subst(m, f, val_of(rt, f.regs, i.lnk), val_of(rt, f.regs, i.val))
            [] i.op = "clear" -> exec_next(m, clear(rt, i.loc, i.size), Tail(f.prog), f.regs)
            [] i.op = "num" -> exec_kept(m, f, op2_num(rt, i.ope, i.a, i.b))


\* does `rule` match the arguments of `term` (hvm.rs 1655-1675): a number is
\* compared by get_val, a constructor by its name
rule_matches(rt, term, rule) ==
  LET same(cond, arg) ==
        IF get_tag(cond) = NUM
          THEN get_tag(arg) = NUM /\ get_val(arg) = get_val(cond)
        ELSE IF get_tag(cond) = CTR
          THEN get_tag(arg) = CTR /\ get_ext(arg) = get_ext(cond)
        ELSE TRUE
  IN \A i \in 1..Len(rule.cond) : same(rule.cond[i], ask_arg(rt, term, i - 1))

\* VARS_DATA[rule.vars[i].name] = Some(var), for i from `i` (1-based)
RECURSIVE gather_vars(_, _, _, _)
gather_vars(rt, term, rvars, i) ==
  IF i > Len(rvars) THEN rt
  ELSE LET v0 == ask_arg(rt, term, rvars[i].param)
           var == IF rvars[i].field.some THEN ask_arg(rt, v0, rvars[i].field.val) ELSE v0
       IN IF rvars[i].name >= VARS_SIZE THEN Fail(rt, "panic: index out of bounds")
          ELSE gather_vars(vars_set(rt, rvars[i].name, var), term, rvars, i + 1)

RECURSIVE clear_eras(_, _, _, _)
clear_eras(rt, term, eras, i) ==
  IF i > Len(eras) THEN rt
  ELSE clear_eras(clear(rt, get_loc(ask_arg(rt, term, eras[i][1]), 0), eras[i][2]),
                  term, eras, i + 1)

\* the frames of reduce and of the rule of a function
KReduce(root, stack, init, host, fin) ==
  [k |-> "reduce", root |-> root, stack |-> stack, init |-> init, host |-> host, fin |-> fin]
KRuleBuilt(func, rule, host, term) ==
  [k |-> "rule_built", func |-> func, rule |-> rule, host |-> host, term |-> term]
KCollectErased(rvars, i) == [k |-> "collect_erased", rvars |-> rvars, i |-> i]

\* reduce(rt, root) (hvm.rs 1340-1351)
reduce(root) == KReduce(root, <<>>, 1, root, FALSE)

Push(m, rt, frames) == [m EXCEPT !.rt = rt, !.ks = Below(m) \o frames]

\* the loop that collects the erased variables (hvm.rs 1698-1706); it reads
\* VARS_DATA[i], the entry at the variable's index i (0-based) in the rule
collect_erased(m, f) ==
  IF f.i > Len(f.rvars) THEN Return(m, m.rt, m.v)
  ELSE IF f.rvars[f.i].erase /\ vars_get(m.rt, f.i - 1).some
    THEN Call(m, m.rt, [f EXCEPT !.i = f.i + 1], KCollect(<<>>, vars_get(m.rt, f.i - 1).val))
    ELSE Goto(m, m.rt, [f EXCEPT !.i = f.i + 1])

\* the rule's right-hand side is built (hvm.rs 1689-1697)
rule_built(m, f) ==
  LET s3 == link(m.rt, f.host, m.v)
      s4 == clear_eras(s3, f.term, f.rule.eras, 1)
      s5 == clear(s4, get_loc(f.term, 0), f.func.arity)
  IN Goto(m, s5, KCollectErased(f.rule.vars, 1))

\* a matching rule is applied (hvm.rs 1676-1708); `after` is the caller's frame
apply_rule(m, after, func, rule, host, term) ==
  LET s1 == set_cost(m.rt, get_cost(m.rt) + 1)
      s2 == gather_vars(s1, term, rule.vars, 1)
  IN Push(m, s2, <<after, KRuleBuilt(func, rule, host, term), KCreate(rule.body, host)>>)

\* what reduce does after an iteration: `init = 1; continue`, or the pop at
\* the end of the loop, or the return of ask_lnk(rt, root)
reduce_after(f, again) ==
  IF again THEN [f EXCEPT !.init = 1]
  ELSE IF f.stack # <<>>
    THEN [f EXCEPT !.stack = SubSeq(f.stack, 1, Len(f.stack) - 1),
                   !.init = f.stack[Len(f.stack)].init,
                   !.host = f.stack[Len(f.stack)].host]
    ELSE [f EXCEPT !.fin = TRUE]

reduce_go(m, rt, g) ==
  IF g.fin THEN Return(m, rt, ask_lnk(rt, g.root)) ELSE Goto(m, rt, g)

\* call_function (hvm.rs 1644-1711): the first strict argument that is a
\* superposition, else the first rule that matches
call_function(m, f, func, host, term) ==
  LET rt == m.rt
      pars == {i \in 1..Len(func.redux) : get_tag(ask_arg(rt, term, func.redux[i])) = PAR}
      hits == {r \in 1..Len(func.rules) : rule_matches(rt, term, func.rules[r])}
      idx == func.redux[Min(pars)]
  IN IF pars # {}
       THEN Call(m, rt, reduce_after(f, TRUE),
                 KExec(cal_par(ask_arg(rt, term, idx), get_arity(rt, get_ext(term)),
                               host, term, idx), <<>>))
     ELSE IF hits # {}
       THEN apply_rule(m, reduce_after(f, TRUE), func, func.rules[Min(hits)], host, term)
     ELSE reduce_go(m, rt, reduce_after(f, FALSE))

\* the strict arguments of a FUN pushed by the descent
push_redux(stack, term, redux) ==
  stack \o [i \in 1..(Len(redux) - 1) |-> Item(1, get_loc(term, redux[i]))]

\* init == 1: descend into what the term needs reduced first (hvm.rs 1363-1404)
reduce_descend(m, f, term, tag) ==
  LET rt == m.rt
      host == f.host
      func == get_func(rt, get_ext(term))
      redux == func.val.redux
  IN CASE tag = APP ->
            Goto(m, rt, [f EXCEPT !.stack = Append(f.stack, Item(0, host)),
                                  !.host = get_loc(term, 0)])
       [] tag \in {DP0, DP1} ->
            Goto(m, rt, [f EXCEPT !.stack = Append(f.stack, Item(0, host)),
                                  !.host = get_loc(term, 2)])
       [] tag = OP2 ->
            Goto(m, rt, [f EXCEPT !.stack = f.stack \o <<Item(0, host),
                                                        Item(1, get_loc(term, 1))>>,
                                  !.host = get_loc(term, 0)])
       [] tag = FUN ->
            IF func.some /\ get_arity(rt, get_ext(term)) = func.val.arity
              THEN IF Len(redux) = 0
                     THEN Goto(m, rt, [f EXCEPT !.init = 0])
                     ELSE Goto(m, rt,
                            [f EXCEPT !.stack = push_redux(Append(f.stack, Item(0, host)),
                                                           term, redux),
                                      !.host = get_loc(term, redux[Len(redux)])])
              ELSE reduce_go(m, rt, reduce_after(f, FALSE))
       [] OTHER -> reduce_go(m, rt, reduce_after(f, FALSE))

\* init == 0: the rule that rewrites the term (hvm.rs 1405-1632)
reduce_rule(rt, host, term, tag) ==
  LET arg0 == ask_arg(rt, term, IF tag \in {DP0, DP1} THEN 2 ELSE 0)
      arg1 == ask_arg(rt, term, 1)
  IN CASE tag = APP ->
            IF get_tag(arg0) = LAM THEN Fires(app_lam(host, term, arg0), TRUE)
            ELSE IF get_tag(arg0) = PAR THEN Fires(app_par(host, term, arg0), FALSE)
            ELSE NoRule
       [] tag \in {DP0, DP1} ->
            IF get_tag(arg0) = LAM THEN Fires(dup_lam(host, term, arg0), TRUE)
            ELSE IF get_tag(arg0) = PAR
              THEN IF get_ext(term) = get_ext(arg0)
                     THEN Fires(dup_par_same(host, term, arg0), TRUE)
                     ELSE Fires(dup_par_diff(host, term, arg0), FALSE)
            ELSE IF get_tag(arg0) = NUM THEN Fires(dup_num(host, term, arg0), FALSE)
            ELSE IF get_tag(arg0) = CTR
              THEN Fires(dup_ctr(get_arity(rt, get_ext(arg0)), host, term, arg0), FALSE)
            ELSE IF get_tag(arg0) = ERA THEN Fires(dup_era(host, term), TRUE)
            ELSE NoRule
       [] tag = OP2 ->
            IF get_tag(arg0) = NUM /\ get_tag(arg1) = NUM
              THEN Fires(op2_num_num(host, term, arg0, arg1), FALSE)
            ELSE IF get_tag(arg0) = PAR THEN Fires(op2_par_0(host, term, arg0, arg1), FALSE)
            ELSE IF get_tag(arg1) = PAR THEN Fires(op2_par_1(host, term, arg0, arg1), FALSE)
            ELSE NoRule
       [] OTHER -> NoRule

\* one iteration of the loop of reduce
reduce_loop(m, f) ==
  LET rt == m.rt
      term == ask_lnk(rt, f.host)
      tag == get_tag(term)
      func == get_func(rt, get_ext(term))
      r == reduce_rule(rt, f.host, term, tag)
  IN IF f.fin THEN Return(m, rt, ask_lnk(rt, f.root))
     ELSE IF f.init = 1 THEN reduce_descend(m, f, term, tag)
     ELSE IF tag = FUN
       THEN IF func.some THEN call_function(m, f, func.val, f.host, term)
            ELSE reduce_go(m, rt, reduce_after(f, FALSE))
     ELSE IF r.some THEN Call(m, rt, reduce_after(f, r.again), KExec(r.prog, <<>>))
     ELSE reduce_go(m, rt, reduce_after(f, FALSE))

\* collect (hvm.rs 1034-1100), one iteration of its loop
collect_pop(m, rt, f) ==
  IF f.stack # <<>>
    THEN Goto(m, rt, KCollect(SubSeq(f.stack, 1, Len(f.stack) - 1), f.stack[Len(f.stack)]))
    ELSE Return(m, rt, m.v)

\* the reduce of the other side of a collected DP0 / DP1 is over
KCollectPop(stack) == [k |-> "collect_pop", stack |-> stack]

collect(m, f) ==
  LET rt == m.rt
      term == f.next
      tag == get_tag(term)
      side == IF tag = DP0 THEN 0 ELSE 1
      erased == link(rt, get_loc(term, side), Era)
      arg0 == ask_arg(rt, term, 0)
      arity == get_arity(rt, get_ext(term))
  IN CASE tag \in {DP0, DP1} ->
            Call(m, erased, KCollectPop(f.stack),
                 reduce(get_loc(ask_arg(erased, term, 1 - side), 0)))
       [] tag = VAR -> collect_pop(m, link(rt, get_loc(term, 0), Era), f)
       [] tag = LAM ->
            Goto(m, clear(IF get_tag(arg0) # ERA THEN link(rt, get_loc(arg0, 0), Era) ELSE rt,
                          get_loc(term, 0), 2),
                 KCollect(f.stack, ask_arg(rt, term, 1)))
       [] tag \in {APP, PAR, OP2} ->
            Goto(m, clear(rt, get_loc(term, 0), 2),
                 KCollect(Append(f.stack, arg0), ask_arg(rt, term, 1)))
       [] tag \in {CTR, FUN} ->
            IF arity > 0
              THEN Goto(m, clear(rt, get_loc(term, 0), arity),
                        KCollect(f.stack \o [i \in 1..(arity - 1) |-> ask_arg(rt, term, i - 1)],
                                 ask_arg(rt, term, arity - 1)))
              ELSE collect_pop(m, clear(rt, get_loc(term, 0), arity), f)
       [] OTHER -> collect_pop(m, rt, f)


----------------------------------------------------------------------------
\* compute_at (hvm.rs 1754-1803) and Runtime::compute (hvm.rs 572-577)

KComputeAt(host) == [k |-> "compute_at", host |-> host]
KComputed(term) == [k |-> "computed", term |-> term]
KComputeKids(norm, offs, i, ret) ==
  [k |-> "compute_kids", norm |-> norm, offs |-> offs, i |-> i, ret |-> ret]
KComputeEnd(host) == [k |-> "compute_end", host |-> host]

\* a compute_at that hands back what the position holds, unreduced
compute_at_unreduced(m, f) == Return(m, m.rt, ask_lnk(m.rt, f.host))

\* let term = ask_lnk(rt, host); let norm = reduce(rt, host)
compute_at(m, f) == Push(m, m.rt, <<KComputed(ask_lnk(m.rt, f.host)), reduce(f.host)>>)

\* the fields compute_at goes into, for each tag of norm
compute_offs(rt, norm) ==
  LET tag == get_tag(norm)
  IN CASE tag = LAM -> <<1>>
       [] tag \in {APP, PAR} -> <<0, 1>>
       [] tag \in {DP0, DP1} -> <<2>>
       [] tag \in {CTR, FUN} -> [i \in 1..get_arity(rt, get_ext(norm)) |-> i - 1]
       [] OTHER -> <<>>

\* `if term != norm { ... return norm } else { return term }`
computed(m, f) ==
  IF f.term # m.v
    THEN Goto(m, m.rt, KComputeKids(m.v, compute_offs(m.rt, m.v), 1, FALSE))
    ELSE Return(m, m.rt, f.term)

\* lnk_i = compute_at(rt, loc_i); link(rt, loc_i, lnk_i), field after field
compute_kids(m, f) ==
  LET rt1 == IF f.ret THEN link(m.rt, get_loc(f.norm, f.offs[f.i]), m.v) ELSE m.rt
      j == IF f.ret THEN f.i + 1 ELSE f.i
  IN IF j > Len(f.offs) THEN Return(m, rt1, f.norm)
     ELSE Push(m, rt1, <<[f EXCEPT !.i = j, !.ret = TRUE],
                         KComputeAt(get_loc(f.norm, f.offs[j]))>>)

\* a compute that hands the term back as it is
compute_skipped(m, after, lnk) == Push([m EXCEPT !.v = lnk], m.rt, <<after>>)

\* Runtime::compute called by a frame that goes on as `after`
compute(m, after, lnk) ==
  LET host == alloc_lnk(m.rt, lnk)
  IN Push(m, host.rt, <<after, KComputeEnd(host.v), KComputeAt(host.v)>>)

compute_end(m, f) == Return(m, clear(m.rt, f.host, 1), m.v)

----------------------------------------------------------------------------
\* Runtime API (hvm.rs 516-538)

define_function(rt, fid, func) ==
  [rt EXCEPT !.draw.arit = Arit_write(@, fid, func.arity),
             !.draw.file = File_write(@, fid, func)]

\* What reduce leaves as it is: a term that is no redex at its root, and whose
\* positions that reduce descends into (hvm.rs 1363-1404) are no redexes
RECURSIVE IsWhnf(_, _)
IsWhnf(rt, lnk) ==
  LET tag == get_tag(lnk)
      arg0 == ask_arg(rt, lnk, 0)
      arg1 == ask_arg(rt, lnk, 1)
      arg2 == ask_arg(rt, lnk, 2)
      func == get_func(rt, get_ext(lnk))
      redux == func.val.redux
  IN CASE tag = APP -> IsWhnf(rt, arg0) /\ get_tag(arg0) \notin {LAM, PAR}
       [] tag \in {DP0, DP1} ->
            IsWhnf(rt, arg2) /\ get_tag(arg2) \notin {LAM, PAR, NUM, CTR, ERA}
       [] tag = OP2 ->
            /\ IsWhnf(rt, arg0) /\ IsWhnf(rt, arg1)
            /\ ~(get_tag(arg0) = NUM /\ get_tag(arg1) = NUM)
            /\ get_tag(arg0) # PAR /\ get_tag(arg1) # PAR
       [] tag = FUN ->
            \/ ~func.some
            \/ get_arity(rt, get_ext(lnk)) # func.val.arity
            \/ /\ \A i \in 1..Len(redux) :
                     /\ IsWhnf(rt, ask_arg(rt, lnk, redux[i]))
                     /\ get_tag(ask_arg(rt, lnk, redux[i])) # PAR
               /\ \A r \in 1..Len(func.val.rules) : ~rule_matches(rt, lnk, func.val.rules[r])
       [] OTHER -> TRUE

\* a term in normal form: no position reachable from it holds a redex
RECURSIVE IsNormal(_, _)
IsNormal(rt, lnk) ==
  LET tag == get_tag(lnk)
      kids == CASE tag = LAM -> {1}
                [] tag \in {APP, PAR, OP2} -> {0, 1}
                [] tag \in {DP0, DP1} -> {2}
                [] tag \in {CTR, FUN} -> {i \in 0..(get_arity(rt, get_ext(lnk)) - 1) : TRUE}
                [] OTHER -> {}
  IN IsWhnf(rt, lnk) /\ \A i \in kids : IsNormal(rt, ask_arg(rt, lnk, i))

\* run_io (hvm.rs 590-659).  Besides the runtime and the Option<Lnk> it
\* returns, the machine keeps a log of the effects it dispatched, in order.
\* An entry records the (subject, caller) the effect was dispatched under and
\* the nesting depth of its chain; `arg` is the function called (call) or the
\* number passed (from); for a call on a Fun head, `cres` tells whether the
\* callee returned a value, `cval` is that value, `k` the continuation and
\* (app_func, app_argm) the application the outer chain resumed with (a load
\* records its continuation and its application the same way); `res`
\* tells whether this run_io returned a value; `got` is the state a load
\* read or a save wrote; `cost` is the cost counter when the effect was
\* dispatched; for a save, `expr` is the term it was given, `pre` tells
\* whether that term was in weak head normal form, `whnf` and `deep` whether
\* the value written was in weak head normal form and in normal form.
Entry(eff, subject, caller, depth, arg, res) ==
  [eff |-> eff, subject |-> subject, caller |-> caller, depth |-> depth,
   arg |-> arg, isfun |-> FALSE, cres |-> FALSE, res |-> res,
   k |-> ZeroLnk, cval |-> ZeroLnk, app_func |-> ZeroLnk, app_argm |-> ZeroLnk,
   got |-> ZeroLnk, cost |-> 0, expr |-> ZeroLnk, pre |-> FALSE, whnf |-> FALSE,
   deep |-> FALSE]

KIoTerm(subject, caller, host, depth) ==
  [k |-> "io_term", subject |-> subject, caller |-> caller, host |-> host, depth |-> depth]
KIoEnd(host, loc, n, idx) == [k |-> "io_end", host |-> host, loc |-> loc, n |-> n, idx |-> idx]
KIoSaved(io, term, idx) == [k |-> "io_saved", io |-> io, term |-> term, idx |-> idx]
KIoCalled(io, term, cont, idx) ==
  [k |-> "io_called", io |-> io, term |-> term, cont |-> cont, idx |-> idx]
KIoNone == [k |-> "io_none"]

\* the frames of run_io(subject, caller, host): `let term = reduce(self, host)`
\* and the match on it
run_io(subject, caller, host, depth) ==
  <<KIoTerm(subject, caller, host, depth), reduce(host)>>

Logged(m, e) == [m EXCEPT !.log = Append(m.log, [e EXCEPT !.cost = get_cost(m.rt)])]

\* the rest of the chain has run: clear this effect's node and return `done`
io_end(m, f) ==
  Return([m EXCEPT !.log[f.idx].res = m.v.some],
         clear(clear(m.rt, f.host, 1), f.loc, f.n), m.v)

\* the IO_CALL arm with the callee under the caller's own subject
io_call_as_subject(m, f, term, idx) ==
  LET expr == ask_arg(m.rt, term, 0)
      cont == ask_arg(m.rt, term, 1)
      e == Entry("call", f.subject, f.caller, f.depth, get_ext(expr), FALSE)
  IN IF get_tag(expr) = FUN
       THEN Push(Logged(m, [e EXCEPT !.isfun = TRUE]), m.rt,
                 <<KIoCalled(f, term, cont, idx)>>
                 \o run_io(f.subject, f.caller, get_loc(term, 0), f.depth + 1))
       ELSE Return(Logged(m, e), clear(clear(m.rt, f.host, 1), get_loc(term, 0), 2), None)

\* the IO_CALL arm (hvm.rs 624-640), up to the callee's run_io
io_call(m, f, term, idx) ==
  LET expr == ask_arg(m.rt, term, 0)
      cont == ask_arg(m.rt, term, 1)
      e == Entry("call", f.subject, f.caller, f.depth, get_ext(expr), FALSE)
  IN IF get_tag(expr) = FUN
       THEN Push(Logged(m, [e EXCEPT !.isfun = TRUE]), m.rt,
                 <<KIoCalled(f, term, cont, idx)>>
                 \o run_io(get_ext(expr), f.subject, get_loc(term, 0), f.depth + 1))
       ELSE Return(Logged(m, e), clear(clear(m.rt, f.host, 1), get_loc(term, 0), 2), None)

\* the chain resumes on the application `cont` of the continuation, under
\* (subject, caller); `end` clears this effect's node when it is over.  The
\* entry of the effect records the application.
io_resume(m, cont, subject, caller, depth, end) ==
  Push([m EXCEPT !.log[end.idx].app_func = ask_arg(cont.rt, ask_lnk(cont.rt, cont.v), 0),
                 !.log[end.idx].app_argm = ask_arg(cont.rt, ask_lnk(cont.rt, cont.v), 1)],
       cont.rt, <<end>> \o run_io(subject, caller, cont.v, depth))

\* the callee has returned a value
io_returned(m, f) ==
  [m EXCEPT !.log[f.idx].cres = TRUE, !.log[f.idx].k = f.cont, !.log[f.idx].cval = m.v.val]

\* an IO_CALL arm that resumes the outer chain under the callee's identity
io_called_as_callee(m, f) ==
  IF ~m.v.some THEN Return(m, m.rt, None)
  ELSE io_resume(io_returned(m, f), alloc_app(m.rt, f.cont, m.v.val),
                 m.log[f.idx].arg, f.io.subject, f.io.depth,
                 KIoEnd(f.io.host, get_loc(f.term, 1), 1, f.idx))

\* the IO_CALL arm from `?` on: the callee's None is returned as it is, its
\* value is applied to the continuation and the chain resumes
io_called(m, f) ==
  IF ~m.v.some THEN Return(m, m.rt, None)
  ELSE io_resume(io_returned(m, f), alloc_app(m.rt, f.cont, m.v.val),
                 f.io.subject, f.io.caller, f.io.depth,
                 KIoEnd(f.io.host, get_loc(f.term, 1), 1, f.idx))

\* the IO_SAVE arm after write_disk: rt1 is the runtime it left
io_save_cont(m, f, rt1) ==
  io_resume([m EXCEPT !.log[f.idx].got = m.v,
                      !.log[f.idx].whnf = IsWhnf(m.rt, m.v),
                      !.log[f.idx].deep = IsNormal(m.rt, m.v)],
            alloc_app(rt1, ask_arg(rt1, f.term, 1), Num(0)),
            f.io.subject, f.io.subject, f.io.depth,
            KIoEnd(f.io.host, get_loc(f.term, 0), 2, f.idx))

\* an IO_SAVE arm that writes the entry of the caller
io_saved_as_caller(m, f) == io_save_cont(m, f, write_disk(m.rt, f.io.caller, m.v))

\* the IO_SAVE arm after `let save = self.compute(expr)`
io_saved(m, f) == io_save_cont(m, f, write_disk(m.rt, f.io.subject, m.v))

io_none(m, f) == Return(m, m.rt, None)

\* the IO_LOAD arm (hvm.rs 602-611); stat is read_disk(subject)
io_load(m, f, term, idx, stat) ==
  LET state == IF stat.some THEN stat.val ELSE Num(0)
  IN io_resume(Logged(m, [Entry("load", f.subject, f.caller, f.depth, 0, FALSE)
                            EXCEPT !.got = state, !.k = ask_arg(m.rt, term, 0)]),
               alloc_app(m.rt, ask_arg(m.rt, term, 0), state),
               f.subject, f.subject, f.depth, KIoEnd(f.host, get_loc(term, 0), 1, idx))

\* the IO_SAVE arm (hvm.rs 612-623), up to compute
io_save(m, f, term, idx, expr) ==
  compute(Logged(m, [Entry("save", f.subject, f.caller, f.depth, 0, FALSE)
                       EXCEPT !.expr = expr, !.pre = IsWhnf(m.rt, expr)]),
          KIoSaved(f, term, idx), expr)

\* the IO_FROM arm (hvm.rs 641-648)
io_from(m, f, term, idx) ==
  io_resume(Logged(m, Entry("from", f.subject, f.caller, f.depth, f.caller, FALSE)),
            alloc_app(m.rt, ask_arg(m.rt, term, 0), Num(f.caller)),
            f.subject, f.caller, f.depth, KIoEnd(f.host, get_loc(term, 0), 1, idx))

\* an IO_DONE arm that returns #0 whatever the argument is
io_done_unit(m, f, term) ==
  Return(Logged(m, Entry("done", f.subject, f.caller, f.depth, 0, TRUE)),
         clear(clear(m.rt, f.host, 1), get_loc(term, 0), 1),
         Some(Num(0)))

\* the IO_DONE arm (hvm.rs 596-601)
io_done(m, f, term) ==
  Return(Logged(m, Entry("done", f.subject, f.caller, f.depth, 0, TRUE)),
         clear(clear(m.rt, f.host, 1), get_loc(term, 0), 1),
         Some(ask_arg(m.rt, term, 0)))

\* the match of run_io on the reduced term
io_term(m, f) ==
  LET term == m.v
      idx == Len(m.log) + 1
  IN IF get_tag(term) # CTR THEN Return(m, m.rt, None)
     ELSE CASE get_ext(term) = IO_DONE -> io_done(m, f, term)
            [] get_ext(term) = IO_LOAD -> io_load(m, f, term, idx, read_disk(m.rt, f.subject))
            [] get_ext(term) = IO_SAVE -> io_save(m, f, term, idx, ask_arg(m.rt, term, 0))
            [] get_ext(term) = IO_CALL -> io_call(m, f, term, idx)
            [] get_ext(term) = IO_FROM -> io_from(m, f, term, idx)
            [] OTHER -> Push(m, m.rt, <<KIoNone, KCollect(<<>>, term)>>)


\* Actions (hvm.rs 29-33)
AFun(name, arit, func, init) ==
  [t |-> "Fun", name |-> name, arit |-> arit, func |-> func, init |-> init]
ACtr(name, arit) == [t |-> "Ctr", name |-> name, arit |-> arit]
ARun(expr) == [t |-> "Run", expr |-> expr]

\* a failed Run that commits what it staged
draw_clear_absorbing(rt) ==
  [rt EXCEPT !.heap = Heap_absorb(rt.heap, rt.draw, TRUE),
             !.draw = Heap_clear(Heap_drained(rt.draw))]

\* self.draw.clear() of a failed Run (hvm.rs 690-694)
draw_clear(rt) == [rt EXCEPT !.draw = Heap_clear(rt.draw)]

\* heap.absorb(&mut draw, true); draw.clear()
commit(rt) ==
  [rt EXCEPT !.heap = Heap_absorb(rt.heap, rt.draw, TRUE),
             !.draw = Heap_clear(Heap_drained(rt.draw))]

\* run_action (hvm.rs 661-697).  Result: the runtime, plus what the statement
\* did: `ok` (it reached its absorb), `staged` (the draw heap at the moment it
\* was absorbed or discarded), the log of run_io and `out`, the term a Run
\* printed.
Done(rt, ok, staged, log) ==
  [rt |-> rt, ok |-> ok, staged |-> staged, log |-> log, out |-> None]

KAction(action) == [k |-> "run_action", action |-> action]
KFunState(name) == [k |-> "fun_state", name |-> name]
KRunHosted(loc) == [k |-> "run_hosted", loc |-> loc]
KRunRan == [k |-> "run_ran"]
KRunComputed == [k |-> "run_computed"]
KRunCollected(done) == [k |-> "run_collected", done |-> done]

\* the statement is over: nothing is left to run
Ended(m, rt, ok, staged, out) ==
  [m EXCEPT !.rt = rt, !.ks = <<>>, !.ok = ok, !.staged = staged, !.out = out]

run_action(m, f) ==
  LET rt == m.rt
      action == f.action
      func == build_func(action.func)
      defined == define_function(set_arity(rt, action.name, action.arit),
                                 action.name, func.val)
      named == set_arity(rt, action.name, action.arit)
      loc == alloc(rt, 1)
  IN CASE action.t = "Fun" ->
            IF ~func.some THEN Ended(m, rt, FALSE, rt.draw, None)
            ELSE Push(m, defined, <<KFunState(action.name), KCreate(action.init, 0)>>)
       [] action.t = "Ctr" -> Ended(m, commit(named), TRUE, named.draw, None)
       [] action.t = "Run" ->
            \* alloc_term (hvm.rs 533-538)
            Push(m, loc.rt, <<KRunHosted(loc.v), KCreate(action.expr, loc.v)>>)

\* self.write_disk(*name, state) and the absorb of a Fun
fun_state(m, f) ==
  LET stored == write_disk(m.rt, f.name, m.v)
  IN Ended(m, commit(stored), TRUE, stored.draw, None)

\* the end of alloc_term, then run_io(0, 0, host)
run_hosted(m, f) == Push(m, Runtime_write(m.rt, f.loc, m.v), <<KRunRan>> \o run_io(0, 0, f.loc, 0))

run_ran(m, f) ==
  IF m.v.some THEN compute(m, KRunComputed, m.v.val)
  ELSE Ended(m, draw_clear(m.rt), FALSE, m.rt.draw, None)

run_computed(m, f) == Push(m, m.rt, <<KRunCollected(m.v), KCollect(<<>>, m.v)>>)

run_collected(m, f) == Ended(m, commit(m.rt), TRUE, m.rt.draw, Some(f.done))

\* define_constructor (hvm.rs 521-523)
define_constructor(rt, cid, arity) == [rt EXCEPT !.draw.arit = Arit_write(@, cid, arity)]

\* The body of test_0 (hvm.rs 2461-2488) on a program: constructors and
\* functions are defined on the runtime, the main term is allocated and
\* compute_at runs on it; `out` is the word at main in the end.
RECURSIVE define_all(_, _, _)
define_all(rt, ctrs, funs) ==
  IF ctrs # <<>>
    THEN define_all(define_constructor(rt, Head(ctrs).name, Head(ctrs).arit), Tail(ctrs), funs)
  ELSE IF funs # <<>>
    THEN IF build_func(Head(funs).func).some
           THEN define_all(define_function(rt, Head(funs).name,
                                           build_func(Head(funs).func).val),
                           ctrs, Tail(funs))
           ELSE Fail(rt, "panic: Couldn't parse function.")
  ELSE rt

KTest(ctrs, funs, main) == [k |-> "test", ctrs |-> ctrs, funs |-> funs, main |-> main]
KTestMain(loc) == [k |-> "test_main", loc |-> loc]
KTestEnd(loc) == [k |-> "test_end", loc |-> loc]

test(m, f) ==
  LET loc == alloc(define_all(m.rt, f.ctrs, f.funs), 1)
  IN Push(m, loc.rt, <<KTestMain(loc.v), KCreate(f.main, loc.v)>>)

test_main(m, f) ==
  Push(m, Runtime_write(m.rt, f.loc, m.v), <<KTestEnd(f.loc), KComputeAt(f.loc)>>)

test_end(m, f) == Ended(m, m.rt, TRUE, m.rt.draw, Some(ask_lnk(m.rt, f.loc)))

----------------------------------------------------------------------------
\* The machine

step(m) ==
  LET f == Top(m)
  IN CASE f.k = "create_term" -> create_term(m, f)
       [] f.k = "create_term:kids" -> create_kids(m, f)
       [] f.k = "exec" -> exec(m, f)
       [] f.k = "reduce" -> reduce_loop(m, f)
       [] f.k = "rule_built" -> rule_built(m, f)
       [] f.k = "collect_erased" -> collect_erased(m, f)
       [] f.k = "collect" -> collect(m, f)
       [] f.k = "collect_pop" -> collect_pop(m, m.rt, f)
       [] f.k = "compute_at" -> compute_at(m, f)
       [] f.k = "computed" -> computed(m, f)
       [] f.k = "compute_kids" -> compute_kids(m, f)
       [] f.k = "compute_end" -> compute_end(m, f)
       [] f.k = "io_term" -> io_term(m, f)
       [] f.k = "io_end" -> io_end(m, f)
       [] f.k = "io_saved" -> io_saved(m, f)
       [] f.k = "io_called" -> io_called(m, f)
       [] f.k = "io_none" -> io_none(m, f)
       [] f.k = "run_action" -> run_action(m, f)
       [] f.k = "fun_state" -> fun_state(m, f)
       [] f.k = "run_hosted" -> run_hosted(m, f)
       [] f.k = "run_ran" -> run_ran(m, f)
       [] f.k = "run_computed" -> run_computed(m, f)
       [] f.k = "run_collected" -> run_collected(m, f)
       [] f.k = "test" -> test(m, f)
       [] f.k = "test_main" -> test_main(m, f)
       [] f.k = "test_end" -> test_end(m, f)

Halted(m) == Len(m.ks) = 0 \/ m.rt.status # "ok"

\* at most 2^k steps of the machine
RECURSIVE run(_, _)
run(m, k) ==
  IF Halted(m) THEN m
  ELSE IF k = 0 THEN step(m)
  ELSE LET a == run(m, k - 1) IN IF Halted(a) THEN a ELSE run(a, k - 1)

\* the statement runs to its end; a statement longer than 2^MaxFuel steps is
\* out of the range of the model
MaxFuel == 16

Machine(rt, ks) ==
  [rt |-> rt, ks |-> ks, v |-> ZeroLnk, log |-> <<>>,
   ok |-> FALSE, staged |-> rt.draw, out |-> None]

Statement_result(m) ==
  IF m.rt.status # "ok" THEN Done(m.rt, FALSE, m.rt.draw, m.log)
  ELSE IF Len(m.ks) # 0 THEN Done(Fail(m.rt, "range: steps"), FALSE, m.rt.draw, m.log)
  ELSE [Done(m.rt, m.ok, m.staged, m.log) EXCEPT !.out = m.out]

do_action(rt, action) == Statement_result(run(Machine(rt, <<KAction(action)>>), MaxFuel))

do_test(rt, ctrs, funs, main) ==
  Statement_result(run(Machine(rt, <<KTest(ctrs, funs, main)>>), MaxFuel))

----------------------------------------------------------------------------
\* The statements the driver submits.  Names are the numbers name_to_u128
\* gives them (hvm.rs 2085-2101).

Fn_F == 16
Fn_G == 17
Fn_H == 18
Fn_K == 21
Ct_P == 26
var_c == 39
var_q == 53
var_r == 54
var_x == 60

IoDone(t) == TCtr(IO_DONE, <<t>>)
IoLoad(k) == TCtr(IO_LOAD, <<k>>)
IoSave(t, k) == TCtr(IO_SAVE, <<t, k>>)
IoCall(f, k) == TCtr(IO_CALL, <<f, k>>)
IoFrom(k) == TCtr(IO_FROM, <<k>>)

\* fun K 0 { !(K) = $(IO.load λx $(IO.save (+ x #1) λ~ $(IO.done #0))) } = #0
FunK ==
  AFun(Fn_K, 0,
       <<<<TFun(Fn_K, <<>>),
           IoLoad(TLam(var_x, IoSave(TOp2(ADD, TVar(var_x), TNum(1)),
                                 TLam(VAR_NONE, IoDone(TNum(0))))))>>>>,
       TNum(0))

\* fun G 0 { !(G) = $(IO.load λ~ $(IO.from λc $(IO.done c))) } = #0
FunG ==
  AFun(Fn_G, 0,
       <<<<TFun(Fn_G, <<>>),
           IoLoad(TLam(VAR_NONE, IoFrom(TLam(var_c, IoDone(TVar(var_c))))))>>>>,
       TNum(0))

\* fun H 0 { !(H) = $(IO.call !(G) λr $(IO.from λ~ $(IO.done r))) } = #0
FunH ==
  AFun(Fn_H, 0,
       <<<<TFun(Fn_H, <<>>),
           IoCall(TFun(Fn_G, <<>>),
                  TLam(var_r, IoFrom(TLam(VAR_NONE, IoDone(TVar(var_r))))))>>>>,
       TNum(0))

\* fun F 0 { !(F) = $(IO.from λc $(IO.save c λ~ $(IO.done #0))) } = #0
FunF ==
  AFun(Fn_F, 0,
       <<<<TFun(Fn_F, <<>>),
           IoFrom(TLam(var_c, IoSave(TVar(var_c), TLam(VAR_NONE, IoDone(TNum(0))))))>>>>,
       TNum(0))

\* a function whose left-hand side build_func rejects: fun F 1 { !(F λx x) = #0 } = #0
FunBad == AFun(Fn_F, 1, <<<<TFun(Fn_F, <<TLam(var_x, TVar(var_x))>>), TNum(0)>>>>, TNum(0))

\* ctr {P 2}
CtrP == ACtr(Ct_P, 2)

\* run { $(IO.call !(f) λr $(IO.done r)) }
RunCall(f) == ARun(IoCall(TFun(f, <<>>), TLam(var_r, IoDone(TVar(var_r)))))

\* run { $(IO.call #7 λr $(IO.done r)) }: IO.call on a head that is no Fun
RunCallNum == ARun(IoCall(TNum(7), TLam(var_r, IoDone(TVar(var_r)))))

\* run { $(IO.call !(K) λ~ $(IO.call #1 λq $(IO.done q))) }: fails after K saved
RunCallThenFail ==
  ARun(IoCall(TFun(Fn_K, <<>>),
              TLam(VAR_NONE, IoCall(TNum(1), TLam(var_q, IoDone(TVar(var_q)))))))

\* run { $(IO.done #3) }
RunDone == ARun(IoDone(TNum(3)))

\* run { #5 }: the term is no IO constructor
RunNum == ARun(TNum(5))

FunStatements == {FunK, FunG, FunH, FunF, FunBad}
CtrStatements == {CtrP}
RunStatements ==
  {RunCall(Fn_K), RunCall(Fn_G), RunCall(Fn_H), RunCall(Fn_F), RunCallNum, RunCallThenFail,
   RunDone, RunNum}

\* the functions whose disk entries the statements touch
Fids == {Fn_F, Fn_G, Fn_H, Fn_K}

----------------------------------------------------------------------------
\* The state machine: a driver that submits statements, ticks and rolls back.

MaxStmts == 3
MaxTicks == 2
MaxRollbacks == 2
Targets == 0..1

\* the runtime made of the current values of the variables
RT ==
  [draw |-> draw, heap |-> heap, back |-> back, nuls |-> nuls, vars |-> VARS_DATA,
   status |-> status, oc |-> overflow_checks, rand |-> <<>>]

Commit(rt) ==
  /\ draw' = rt.draw
  /\ heap' = rt.heap
  /\ back' = rt.back
  /\ nuls' = rt.nuls
  /\ VARS_DATA' = rt.vars
  /\ status' = rt.status

Obs(op, ok, staged, log, T) ==
  [op |-> op, ok |-> ok, staged |-> staged, log |-> log, T |-> T, out |-> None,
   stmt |-> <<>>]

\* the disk entries of Fids as read through the runtime
DiskView(rt) == [f \in Fids |-> read_disk(rt, f)]

Marked == {1, 2, 50}

Init ==
  /\ overflow_checks \in BOOLEAN
  /\ draw = init_runtime(overflow_checks).draw
  /\ heap = init_runtime(overflow_checks).heap
  /\ back = init_runtime(overflow_checks).back
  /\ nuls = init_runtime(overflow_checks).nuls
  /\ VARS_DATA = EmptyMap
  /\ status = "ok"
  /\ last = Obs("init", TRUE, init_heap, <<>>, 0)
  /\ nstmt = 0
  /\ ntick = 0
  /\ nroll = 0
  /\ mark = EmptyMap

Statement(a) ==
  /\ status = "ok"
  /\ LET done(d) ==
           /\ Commit(d.rt)
           /\ last' = [Obs(a.t, d.ok, d.staged, d.log, 0) EXCEPT !.out = d.out]
     IN done(do_action(RT, a))
  /\ nstmt' = nstmt + 1
  /\ UNCHANGED <<overflow_checks, ntick, nroll, mark>>

DoFun == nstmt < MaxStmts /\ \E a \in FunStatements : Statement(a)
DoCtr == nstmt < MaxStmts /\ \E a \in CtrStatements : Statement(a)
DoRun == nstmt < MaxStmts /\ \E a \in RunStatements : Statement(a)

TickStep ==
  /\ status = "ok"
  /\ LET ticked(t) ==
           /\ Commit(t)
           /\ last' = Obs("tick", t.status = "ok", draw, <<>>, 0)
           /\ mark' = IF t.status = "ok" /\ (ntick + 1) \in Marked
                        THEN [k \in (DOMAIN mark) \cup {ntick + 1} |->
                                IF k = ntick + 1 THEN DiskView(t) ELSE mark[k]]
                        ELSE mark
     IN ticked(tick(RT))
  /\ ntick' = ntick + 1
  /\ UNCHANGED <<overflow_checks, nstmt, nroll>>

RollbackStep(T) ==
  /\ status = "ok"
  /\ LET rolled(b) ==
           /\ Commit(b)
           /\ last' = Obs("rollback", b.status = "ok", draw, <<>>, T)
     IN rolled(rollback(RT, T))
  /\ nroll' = nroll + 1
  /\ UNCHANGED <<overflow_checks, nstmt, ntick, mark>>

DoTick == ntick < MaxTicks /\ TickStep
DoRollback == nroll < MaxRollbacks /\ \E T \in Targets : RollbackStep(T)

Next == DoFun \/ DoCtr \/ DoRun \/ DoTick \/ DoRollback

Spec == Init /\ [][Next]_vars

----------------------------------------------------------------------------
\* A long run of the driver: the counter K is defined, ticks 1..LongTicks
\* pass with calls of K between some of them, and the driver then rolls back.
\* It also rolls back a runtime that never ticked.

LongTicks == 100
LongRollbacks == 9
LongRunAt == {0, 49, 50, 99}
LongRollbackAt == {0, 17, LongTicks}
LongTargets == {0, 50}

LongFun ==
  /\ nstmt = 0 /\ ntick = 0 /\ nroll = 0
  /\ Statement(FunK)

LongRun ==
  /\ nstmt > 0 /\ nroll = 0
  /\ ntick \in LongRunAt
  /\ last.op \in {"Fun", "tick"}
  /\ Statement(RunCall(Fn_K))

LongTick ==
  /\ ntick < LongTicks /\ nroll = 0
  /\ TickStep

LongRollback ==
  /\ nroll < LongRollbacks
  /\ ntick \in LongRollbackAt
  /\ \E T \in LongTargets : RollbackStep(T)

NextLong == LongFun \/ LongRun \/ LongTick \/ LongRollback

SpecLong == Init /\ [][NextLong]_vars

----------------------------------------------------------------------------
\* Properties

StatementOps == {"Fun", "Ctr", "Run"}

\* m holds the union of the maps p and d: its keys are theirs, a key of one
\* map only keeps that map's value, a key of both has one of the two values
MapUnion(p, d, m) ==
  /\ DOMAIN m = (DOMAIN p) \cup (DOMAIN d)
  /\ \A key \in DOMAIN m :
       /\ key \notin DOMAIN d => m[key] = p[key]
       /\ key \notin DOMAIN p => m[key] = d[key]
       /\ (key \in DOMAIN p /\ key \in DOMAIN d) => (m[key] = p[key] \/ m[key] = d[key])

ScalarUnion(p, d, m, none) ==
  /\ d = none => m = p
  /\ p = none => m = d
  /\ m \in {p, d}

HeapUnion(p, d, m) ==
  /\ MapUnion(p.data, d.data, m.data)
  /\ MapUnion(p.disk, d.disk, m.disk)
  /\ MapUnion(p.file, d.file, m.file)
  /\ MapUnion(p.arit, d.arit, m.arit)
  /\ ScalarUnion(p.tick, d.tick, m.tick, U128_NONE)
  /\ ScalarUnion(p.funs, d.funs, m.funs, U128_NONE)
  /\ ScalarUnion(p.dups, d.dups, m.dups, U128_NONE)
  /\ ScalarUnion(p.cost, d.cost, m.cost, U128_NONE)
  /\ ScalarUnion(p.mana, d.mana, m.mana, U128_NONE)
  /\ ScalarUnion(p.size, d.size, m.size, I128_NONE)
  /\ ScalarUnion(p.next, d.next, m.next, U128_NONE)

\* C1: a Run statement whose run_io returns no result leaves the canonical
\* heap (cells, disk, code, arities, scalars) and the rollback stack exactly
\* as they were, and a statement changes heap in no other way than by
\* absorbing what draw staged.
C1_StatementAtomicity ==
  [][ /\ (last'.op = "Run" /\ ~last'.ok) => (heap' = heap /\ back' = back)
      /\ (last'.op \in StatementOps) =>
           /\ back' = back
           /\ heap' = heap \/ heap' = Heap_absorb(heap, last'.staged, TRUE) ]_vars

\* a Run has failed after its callee staged a disk write
C1_Witness ==
  /\ status = "ok"
  /\ last.op = "Run" /\ ~last.ok
  /\ Fn_K \in DOMAIN last.staged.disk
  /\ \E i \in 1..Len(last.log) : last.log[i].eff = "save"

\* C2: after every completed statement and after every tick, draw is empty
\* (no cell written, no disk / file / arit entry, every scalar absent), and
\* after a successful statement heap holds the union of its previous content
\* and what draw held.
C2_DrawEmptyHeapUnion ==
  [][ /\ (status' = "ok" /\ last'.op \in StatementOps \cup {"tick"}) => draw' = init_heap
      /\ (status' = "ok" /\ last'.op \in StatementOps /\ last'.ok) =>
           HeapUnion(heap, last'.staged, heap') ]_vars

\* a successful Run has committed a disk write over an earlier value, and a
\* tick has passed before it
C2_Witness ==
  /\ status = "ok"
  /\ last.op = "Run" /\ last.ok
  /\ Fn_K \in DOMAIN last.staged.disk
  /\ heap.disk[Fn_K] = Num(2)
  /\ ntick > 0
  /\ draw = init_heap

\* the tick a heap carries, an absent tick counting as 0 (the zero of get_with)
TickOf(h) == IF h.tick = U128_NONE THEN 0 ELSE h.tick

\* the committed tick as read through the runtime's layers
CommittedTick ==
  LET L == Layers(RT) IN get_with(0, U128_NONE, [i \in 1..Len(L) |-> L[i].tick])

\* C3: rollback(T) removes from the rollback stack exactly the snapshots whose
\* tick is > T, clears each of them and returns it to the pool, and makes the
\* current heap the youngest remaining snapshot with tick <= T, popping it;
\* when no snapshot remains the current heap is an empty heap drawn from the
\* pool and the stack is empty.  Stated for the first rollback of a run, to a
\* tick before the current one.
C3_RollbackSemantics ==
  [][ (last'.op = "rollback" /\ nroll = 0 /\ last'.T < ntick) =>
        LET T == last'.T
            younger == {i \in 1..Len(back) : gt_u128(back[i].head.tick, T)}
            kept == SelectSeq(back, LAMBDA e : ~gt_u128(e.head.tick, T))
        IN /\ status' = "ok"
           /\ \A i \in 1..Len(nuls') : nuls'[i] = init_heap
           /\ IF kept # <<>>
                THEN /\ heap' = kept[1].head
                     /\ back' = Tail(kept)
                     /\ Len(nuls') = Len(nuls) + Cardinality(younger)
                ELSE /\ heap' = init_heap
                     /\ back' = <<>>
                     /\ Len(nuls') = Len(nuls) + Cardinality(younger) - 1 ]_vars

\* C4: after rollback(T) the current heap's tick is <= T and every snapshot
\* still retained in back has a tick strictly smaller than the current
\* heap's tick.
C4_PostRollbackOrder ==
  (status = "ok" /\ last.op = "rollback") =>
    /\ TickOf(heap) <= last.T
    /\ \A i \in 1..Len(back) : TickOf(back[i].head) < TickOf(heap)

\* C5: for all T' < T, rollback(T) followed by rollback(T') leaves the same
\* current heap and rollback stack as a single rollback(T') from the same
\* state, and ends the same way.
C5_RollbackMonotone ==
  status = "ok" =>
    \A T \in LongTargets, T2 \in LongTargets :
      T2 < T =>
        LET two == rollback(rollback(RT, T), T2)
            one == rollback(RT, T2)
        IN /\ two.status = one.status
           /\ two.heap = one.heap
           /\ two.back = one.back

\* C6: after ticks 1..100 with calls of K between ticks, rollback(50) leaves
\* every touched function's disk entry, read through the runtime, equal to the
\* entry as it was right after tick 50 was absorbed.
C6_RollbackToFifty ==
  (status = "ok" /\ last.op = "rollback" /\ last.T = 50 /\ ntick = LongTicks /\ nroll = 1) =>
    \A f \in Fids : read_disk(RT, f) = mark[50][f]

\* C7: rollback(T) with no retained snapshot of tick <= T does not fail and
\* leaves the runtime at the oldest retained snapshot.
C7_UnreachableClamped ==
  [][ (last'.op = "rollback"
       /\ \A i \in 1..Len(back) : gt_u128(back[i].head.tick, last'.T)) =>
        /\ status' = "ok"
        /\ back # <<>> => heap' = back[Len(back)].head ]_vars

\* C8: every tick() increases the committed tick by exactly one (the k-th
\* tick from init_runtime without rollback leaves tick = k), and no statement
\* changes the committed tick.
C8_TickCounter ==
  [][ /\ last'.op = "tick" => (status' = "ok" /\ CommittedTick' = CommittedTick + 1)
      /\ (last'.op = "tick" /\ nroll = 0) => CommittedTick' = ntick'
      /\ last'.op \in StatementOps => CommittedTick' = CommittedTick ]_vars

\* Navigation in the log of a Run: the next entry of the chain of entry i
\* (0 if the chain has no later entry), and the call entry that opened the
\* chain of entry i (0 for the outermost chain).
NextInChain(log, i) ==
  LET later == {j \in (i + 1)..Len(log) : log[j].depth <= log[i].depth}
  IN IF later # {} /\ log[Min(later)].depth = log[i].depth THEN Min(later) ELSE 0

Opener(log, i) ==
  LET before == {j \in 1..(i - 1) : log[j].depth < log[i].depth}
  IN IF before = {} THEN 0 ELSE CHOOSE j \in before : \A z \in before : z <= j

\* C9: while f runs because subject s invoked it with IO.call, every IO.from
\* of f's chain passes Num(s), also after IO.load / IO.save effects of the same
\* chain; load, save and from leave subject and caller as they are.
C9_IdentityDiscipline ==
  \A i \in 1..Len(last.log) :
    LET e == last.log[i]
        n == NextInChain(last.log, i)
        o == Opener(last.log, i)
    IN /\ (e.eff = "from" /\ o # 0) => e.arg = last.log[o].subject
       /\ (e.eff = "from" /\ o = 0) => e.arg = 0
       /\ (e.eff \in {"load", "save", "from"} /\ n # 0) =>
            (last.log[n].subject = e.subject /\ last.log[n].caller = e.caller)

----------------------------------------------------------------------------
\* Statements on the persistent cells: functions that save and load, and runs
\* that call them.

var_k == 47
var_s == 55

\* fun F 0 { !(F) = $(IO.save #42 λk $(IO.done #0)) } = #0
FunSave42 ==
  AFun(Fn_F, 0,
       <<<<TFun(Fn_F, <<>>), IoSave(TNum(42), TLam(var_k, IoDone(TNum(0))))>>>>,
       TNum(0))

\* fun G 0 { !(G) = $(IO.save (+ #1 #2) λ~ $(IO.load λs $(IO.done s))) } = #0
FunSaveSum ==
  AFun(Fn_G, 0,
       <<<<TFun(Fn_G, <<>>),
           IoSave(TOp2(ADD, TNum(1), TNum(2)),
                  TLam(VAR_NONE, IoLoad(TLam(var_s, IoDone(TVar(var_s))))))>>>>,
       TNum(0))

\* fun H 0 { !(H) = $(IO.save $(P (+ #1 #2) #0) λ~ $(IO.done #0)) } = #0
FunSaveCtr ==
  AFun(Fn_H, 0,
       <<<<TFun(Fn_H, <<>>),
           IoSave(TCtr(Ct_P, <<TOp2(ADD, TNum(1), TNum(2)), TNum(0)>>),
                  TLam(VAR_NONE, IoDone(TNum(0))))>>>>,
       TNum(0))

\* run { !(IO.call !(F) λr $(IO.load λs $(IO.done s))) }, as the scenario
\* writes it: the head is the Fun term IO.call
RunRoundtripFun ==
  ARun(TFun(IO_CALL, <<TFun(Fn_F, <<>>),
                       TLam(var_r, IoLoad(TLam(var_s, IoDone(TVar(var_s)))))>>))

\* run { $(IO.call !(F) λr $(IO.load λs $(IO.done s))) }: the head is the
\* constructor IO.call
RunRoundtrip ==
  ARun(IoCall(TFun(Fn_F, <<>>), TLam(var_r, IoLoad(TLam(var_s, IoDone(TVar(var_s)))))))

\* run { $(IO.save #9 λ~ $(IO.call !(F) λr $(IO.load λs $(IO.done s)))) }
RunSaveCall ==
  ARun(IoSave(TNum(9),
              TLam(VAR_NONE,
                   IoCall(TFun(Fn_F, <<>>),
                          TLam(var_r, IoLoad(TLam(var_s, IoDone(TVar(var_s)))))))))

IoFunStatements == {FunSave42, FunSaveSum, FunSaveCtr, FunK}
IoRunStatements ==
  {RunRoundtripFun, RunRoundtrip, RunSaveCall,
   RunCall(Fn_F), RunCall(Fn_G), RunCall(Fn_H), RunCall(Fn_K), RunCallThenFail}

\* the subjects of these statements: the functions, and 0 for a run
IoSubjects == {0, Fn_F, Fn_G, Fn_H, Fn_K}

MaxIoStmts == 5

\* a statement that also keeps which statement it was
StatementOf(a) ==
  /\ status = "ok"
  /\ LET done(d) ==
           /\ Commit(d.rt)
           /\ last' = [Obs(a.t, d.ok, d.staged, d.log, 0) EXCEPT !.out = d.out, !.stmt = a]
     IN done(do_action(RT, a))
  /\ nstmt' = nstmt + 1
  /\ UNCHANGED <<overflow_checks, ntick, nroll, mark>>

IoCtr == nstmt = 0 /\ StatementOf(CtrP)
IoFun == nstmt > 0 /\ nstmt < MaxIoStmts /\ \E a \in IoFunStatements : StatementOf(a)
IoRun == nstmt > 0 /\ nstmt < MaxIoStmts /\ \E a \in IoRunStatements : StatementOf(a)

NextIo == IoCtr \/ IoFun \/ IoRun

SpecIo == Init /\ [][NextIo]_vars

----------------------------------------------------------------------------
\* The runtime after the step, and the last save of subject x in a log (0 if
\* there is none)
After ==
  [draw |-> draw', heap |-> heap', back |-> back', nuls |-> nuls', vars |-> VARS_DATA',
   status |-> status', oc |-> overflow_checks, rand |-> <<>>]

LastSave(log, x) ==
  LET saves == {i \in 1..Len(log) : log[i].eff = "save" /\ log[i].subject = x}
  IN IF saves = {} THEN 0 ELSE CHOOSE i \in saves : \A j \in saves : j <= i

\* C11: during a Run statement the disk entry of x is written only by an
\* IO.save executed while the subject is x: an entry no save of subject x
\* wrote is not staged and reads as before, an entry that was saved holds what
\* the last save of that subject wrote (and reads as before if the statement
\* failed); a save inside a chain opened by IO.call runs under the callee's
\* identifier; load and from write nothing.
C11_CellIsolation ==
  [][ (last'.op = "Run" /\ status' = "ok") =>
        /\ DOMAIN last'.staged.disk \subseteq IoSubjects
        /\ \A x \in IoSubjects :
             LET i == LastSave(last'.log, x)
             IN /\ i = 0 => (x \notin DOMAIN last'.staged.disk
                             /\ read_disk(After, x) = read_disk(RT, x))
                /\ i # 0 => /\ x \in DOMAIN last'.staged.disk
                            /\ last'.staged.disk[x] = last'.log[i].got
                /\ (i # 0 /\ last'.ok) => read_disk(After, x) = Some(last'.log[i].got)
                /\ (i # 0 /\ ~last'.ok) => read_disk(After, x) = read_disk(RT, x)
        /\ \A i \in 1..Len(last'.log) :
             (last'.log[i].eff = "save" /\ Opener(last'.log, i) # 0) =>
               last'.log[i].subject = last'.log[Opener(last'.log, i)].arg ]_vars

\* a run has saved #9 under its own subject 0 and then called F, which saved
\* #42 under F: both entries hold what their subject saved
C11_Witness ==
  /\ status = "ok"
  /\ last.stmt = RunSaveCall /\ last.ok
  /\ read_disk(RT, 0) = Some(Num(9))
  /\ read_disk(RT, Fn_F) = Some(Num(42))
  /\ \E i, j \in 1..Len(last.log) :
       /\ last.log[i].eff = "save" /\ last.log[i].subject = 0 /\ last.log[i].depth = 0
       /\ last.log[j].eff = "save" /\ last.log[j].subject = Fn_F /\ last.log[j].depth = 1

\* F is defined as fun F 0 { !(F) = $(IO.save #42 λk $(IO.done #0)) }
FSaves42 == get_func(RT, Fn_F) = build_func(FunSave42.func)

\* C12 as stated: with F defined as above, the statement
\* run { !(IO.call !(F) λr $(IO.load λs $(IO.done s))) } succeeds and yields #42.
C12_RoundtripYields42 ==
  [][ (FSaves42 /\ last'.stmt = RunRoundtripFun) =>
        (last'.ok /\ last'.out = Some(Num(42))) ]_vars

\* C12, amended: with F defined as above, the run with the constructor head
\* $(IO.call ...) succeeds, F's entry holds #42 and the run yields what the
\* entry of its own subject 0 held (#0 when it has none): the load after the
\* call is the run's, not F's.  With the Fun head !(IO.call ...) the run fails
\* and changes nothing.
C12_Roundtrip ==
  [][ (FSaves42 /\ status' = "ok") =>
        /\ last'.stmt = RunRoundtrip =>
             /\ last'.ok
             /\ last'.out = Some(IF read_disk(RT, 0).some THEN read_disk(RT, 0).val
                                 ELSE Num(0))
             /\ read_disk(After, Fn_F) = Some(Num(42))
        /\ last'.stmt = RunRoundtripFun => (~last'.ok /\ heap' = heap) ]_vars

\* the roundtrip run has yielded #0 with #42 in F's entry
C12_Witness ==
  /\ status = "ok"
  /\ last.stmt = RunRoundtrip /\ last.ok
  /\ last.out = Some(Num(0))
  /\ read_disk(RT, Fn_F) = Some(Num(42))

\* the save of subject x before entry i of the log (0 if there is none)
SaveBefore(log, i, x) == LastSave(SubSeq(log, 1, i - 1), x)

GSavesSum == get_func(RT, Fn_G) = build_func(FunSaveSum.func)

C14_SavedInNormalForm ==
  status = "ok" =>
    \A i \in 1..Len(last.log) : last.log[i].eff = "save" => last.log[i].deep

\* C14, amended: every value written to disk by IO.save is in weak head
\* normal form at its root, and a term that was already in weak head normal
\* form is written as it is, redexes of its fields included.
C14_SavedInWhnf ==
  status = "ok" =>
    \A i \in 1..Len(last.log) :
      last.log[i].eff = "save" =>
        /\ last.log[i].whnf
        /\ last.log[i].pre => last.log[i].got = last.log[i].expr

\* H has saved $(P (+ #1 #2) #0): the constructor was written as it was, with
\* the sum unreduced in its first field
C14_Witness ==
  /\ status = "ok"
  /\ last.stmt = RunCall(Fn_H) /\ last.ok
  /\ \E i \in 1..Len(last.log) :
       /\ last.log[i].eff = "save" /\ last.log[i].subject = Fn_H
       /\ get_tag(last.log[i].got) = CTR /\ get_ext(last.log[i].got) = Ct_P
       /\ last.log[i].pre /\ last.log[i].whnf /\ ~last.log[i].deep
       /\ get_tag(ask_arg(RT, last.log[i].got, 0)) = OP2

----------------------------------------------------------------------------
\* The binary tree sum: Gen builds a tree of depth x with #1 in its leaves,
\* Sum adds the leaves (hvm.rs 2465-2474).

Ct_Leaf == 5937514
Ct_Node == 6502953
Fn_Gen == 72306
Fn_Sum == 122481
var_a == 37
var_b == 38
var_x0 == 3841
var_x1 == 3842

CtrLeaf == ACtr(Ct_Leaf, 1)
CtrNode == ACtr(Ct_Node, 2)

\* fun Gen 1 {
\*   !(Gen #0) = $(Leaf #1)
\*   !(Gen  x) = & x0 x1 = x; $(Node !(Gen (- x0 #1)) !(Gen (- x1 #1)))
\* } = #0
FunGen ==
  AFun(Fn_Gen, 1,
       <<<<TFun(Fn_Gen, <<TNum(0)>>), TCtr(Ct_Leaf, <<TNum(1)>>)>>,
         <<TFun(Fn_Gen, <<TVar(var_x)>>),
           TDup(var_x0, var_x1, TVar(var_x),
                TCtr(Ct_Node, <<TFun(Fn_Gen, <<TOp2(SUB, TVar(var_x0), TNum(1))>>),
                                TFun(Fn_Gen, <<TOp2(SUB, TVar(var_x1), TNum(1))>>)>>))>>>>,
       TNum(0))

\* fun Sum 1 {
\*   !(Sum $(Leaf x))   = x
\*   !(Sum $(Node a b)) = (+ !(Sum a) !(Sum b))
\* } = #0
FunSum ==
  AFun(Fn_Sum, 1,
       <<<<TFun(Fn_Sum, <<TCtr(Ct_Leaf, <<TVar(var_x)>>)>>), TVar(var_x)>>,
         <<TFun(Fn_Sum, <<TCtr(Ct_Node, <<TVar(var_a), TVar(var_b)>>)>>),
           TOp2(ADD, TFun(Fn_Sum, <<TVar(var_a)>>), TFun(Fn_Sum, <<TVar(var_b)>>))>>>>,
       TNum(0))

\* !(Sum !(Gen #d))
SumGen(d) == TFun(Fn_Sum, <<TFun(Fn_Gen, <<TNum(d)>>)>>)

\* run { !(Sum !(Gen #d)) } and run { $(IO.done !(Sum !(Gen #d))) }
RunSum(d) == ARun(SumGen(d))
RunSumDone(d) == ARun(IoDone(SumGen(d)))

MaxDepth == 4
MaxSumStmts == 6

\* the statements of the scenario in their order, then runs
SumCtr == nstmt < 2 /\ StatementOf(IF nstmt = 0 THEN CtrLeaf ELSE CtrNode)
SumFun == nstmt \in 2..3 /\ StatementOf(IF nstmt = 2 THEN FunGen ELSE FunSum)
SumRun ==
  /\ nstmt >= 4 /\ nstmt < MaxSumStmts
  /\ \E d \in 0..MaxDepth, io \in BOOLEAN :
        StatementOf(IF io THEN RunSumDone(d) ELSE RunSum(d))

\* test_0 on a fresh runtime, for depth d
Test0(d) ==
  /\ status = "ok" /\ nstmt = 0
  /\ LET done(t) ==
           /\ Commit(t.rt)
           /\ last' = [Obs("test_0", t.ok, t.staged, t.log, d) EXCEPT !.out = t.out]
     IN done(do_test(RT, <<CtrLeaf, CtrNode>>, <<FunGen, FunSum>>, SumGen(d)))
  /\ nstmt' = MaxSumStmts
  /\ UNCHANGED <<overflow_checks, ntick, nroll, mark>>

SumTest == \E d \in 0..MaxDepth : Test0(d)

NextSum == SumCtr \/ SumFun \/ SumRun \/ SumTest

SpecSum == Init /\ [][NextSum]_vars

----------------------------------------------------------------------------
\* The binary tree sum scenario.

\* ctr Leaf 1, ctr Node 2, fun Gen 1 and fun Sum 1 have been committed
SumDefined ==
  /\ get_arity(RT, Ct_Leaf) = 1
  /\ get_arity(RT, Ct_Node) = 2
  /\ get_func(RT, Fn_Gen) = build_func(FunGen.func)
  /\ get_func(RT, Fn_Sum) = build_func(FunSum.func)

\* C15 as stated: after the four definitions, the statement
\* run { !(Sum !(Gen #4)) } succeeds, reports #16 and is committed.
C15_RunReports16 ==
  [][ (SumDefined /\ status' = "ok" /\ last'.stmt = RunSum(4)) =>
        /\ last'.ok
        /\ last'.out = Some(Num(16))
        /\ HeapUnion(heap, last'.staged, heap') ]_vars

\* C15, amended: after the four definitions, for every depth d of the range
\* (d = 4 and #16 included), run { !(Sum !(Gen #d)) } fails, since the number
\* its term reduces to is no IO constructor: it reports nothing, draw is
\* discarded and heap is unchanged; run { $(IO.done !(Sum !(Gen #d))) }
\* succeeds, reports #(2^d) and is committed.
C15_RunSumDone ==
  [][ (SumDefined /\ status' = "ok") =>
        \A d \in 0..MaxDepth :
          /\ last'.stmt = RunSum(d) =>
               /\ ~last'.ok /\ last'.out = None
               /\ heap' = heap /\ back' = back /\ draw' = init_heap
          /\ last'.stmt = RunSumDone(d) =>
               /\ last'.ok /\ last'.out = Some(Num(pow2(d)))
               /\ HeapUnion(heap, last'.staged, heap')
               /\ back' = back /\ draw' = init_heap ]_vars

\* run { $(IO.done !(Sum !(Gen #4))) } has reported #16 after a bare
\* run { !(Sum !(Gen #4)) } failed
C15_Witness ==
  /\ status = "ok" /\ nstmt = MaxSumStmts
  /\ last.stmt = RunSumDone(4) /\ last.ok /\ last.out = Some(Num(16))
  /\ last.log # <<>> /\ last.log[Len(last.log)].eff = "done"
  /\ get_func(RT, Fn_Sum) = build_func(FunSum.func)

\* C16: for every depth d of the range, test_0 with the Gen / Sum rules (Gen
\* #0 = Leaf #1; Gen x = Node (Gen (x - 1)) (Gen (x - 1)) through a dup; Sum
\* (Leaf x) = x; Sum (Node a b) = Sum a + Sum b): compute_at on
\* !(Sum !(Gen #d)) ends with Num(2^d) at the root.
C16_SumReducesSum ==
  [][ (last'.op = "test_0" /\ status' = "ok") =>
        /\ last'.T \in 0..MaxDepth
        /\ last'.out = Some(Num(pow2(last'.T))) ]_vars

\* test_0 for depth 4 has ended with #16 at the root
C16_Witness ==
  /\ status = "ok"
  /\ last.op = "test_0" /\ last.T = 4
  /\ last.out = Some(Num(16))
  /\ get_func(RT, Fn_Gen) = build_func(FunGen.func)

----------------------------------------------------------------------------
\* The operator table: runs of one operator on two numbers.

Operators == {ADD, SUB, MUL, DIV, MOD, AND, OR, XOR, SHL, SHR, LTN, LTE, EQL, GTE, GTN, NEQ}

\* operands hi * 2^60 + lo
LeftOperands == {U120(0, 0), U120(0, 1), U120(0, 6), U120(1, 0), U120(1, 5)}
RightOperands == {U120(0, 0), U120(0, 1), U120(0, 2), U120(0, 128), U120(1, 0)}

\* run { $(IO.done (op #a #b)) }
RunOp(op, a, b) == ARun(IoDone(TOp2(op, TNum_u120(a.hi, a.lo), TNum_u120(b.hi, b.lo))))

\* run { $(IO.done #7) }
RunSeven == ARun(IoDone(TNum(7)))

OpRun ==
  /\ nstmt = 0
  /\ \E op \in Operators, a \in LeftOperands, b \in RightOperands : StatementOf(RunOp(op, a, b))

\* the statement after it
OpNext == nstmt = 1 /\ StatementOf(RunSeven)

NextOp == OpRun \/ OpNext

SpecOp == Init /\ [][NextOp]_vars

\* the panics of the arithmetic of op2
OverflowPanics ==
  {"panic: attempt to add with overflow",
   "panic: attempt to subtract with overflow",
   "panic: attempt to multiply with overflow",
   "panic: attempt to shift left with overflow",
   "panic: attempt to shift right with overflow"}

ZeroPanics ==
  {"panic: attempt to divide by zero",
   "panic: attempt to calculate the remainder with a divisor of zero"}

\* op on a and b modulo 2^120 where hi and lo of the result are below
\* FieldMax, None where they are not
Modular(op, a, b) ==
  LET fits(hi, lo) == IF hi >= 0 /\ hi < FieldMax /\ lo >= 0 /\ lo < FieldMax
                        THEN Some(U120(hi, lo)) ELSE None
      bool(p) == Some(U120(0, IF p THEN 1 ELSE 0))
      less(x, y) == x.hi < y.hi \/ (x.hi = y.hi /\ x.lo < y.lo)
  IN CASE op = ADD -> fits(a.hi + b.hi, a.lo + b.lo)
       [] op = SUB -> IF less(a, b) THEN None ELSE fits(a.hi - b.hi, a.lo - b.lo)
       [] op = MUL -> IF a.hi * b.hi # 0 THEN None
                      ELSE fits(a.hi * b.lo + a.lo * b.hi, a.lo * b.lo)
       [] op = AND -> fits(bit_op(AND, a.hi, b.hi), bit_op(AND, a.lo, b.lo))
       [] op = OR -> fits(bit_op(OR, a.hi, b.hi), bit_op(OR, a.lo, b.lo))
       [] op = XOR -> fits(bit_op(XOR, a.hi, b.hi), bit_op(XOR, a.lo, b.lo))
       [] op = SHL -> IF b.hi > 0 \/ b.lo >= 120 THEN Some(U120(0, 0))
                      ELSE IF b.lo < 20 THEN fits(a.hi * pow2(b.lo), a.lo * pow2(b.lo))
                      ELSE None
       [] op = SHR -> IF b.hi > 0 \/ b.lo >= 120 THEN Some(U120(0, 0))
                      ELSE IF b.lo < 20 /\ a.hi = 0 THEN fits(0, a.lo \div pow2(b.lo))
                      ELSE None
       [] op = LTN -> bool(less(a, b))
       [] op = LTE -> bool(~less(b, a))
       [] op = EQL -> bool(a = b)
       [] op = GTE -> bool(~less(a, b))
       [] op = GTN -> bool(less(b, a))
       [] op = NEQ -> bool(a # b)
       [] OTHER -> None

\* C17 as stated: for every operator of the table and all operands, reducing
\* Op2(op, Num a, Num b) never aborts on overflow or underflow and yields
\* Num(r), r the result modulo 2^120 (sum, difference, product, bitwise and /
\* or / xor, shifts, 0 / 1 for the six comparisons).
C17_OperatorTable ==
  [][ \A op \in Operators \ {DIV, MOD}, a \in LeftOperands, b \in RightOperands :
        last'.stmt = RunOp(op, a, b) =>
          /\ status' \notin OverflowPanics
          /\ (status' = "ok" /\ Modular(op, a, b).some) =>
               (last'.ok /\ last'.out = Some(Num_u120(Modular(op, a, b).val))) ]_vars

\* C18 as stated: a division or a modulus by zero never aborts the runtime:
\* the reducing statement ends as a failed statement or yields a number, and
\* the runtime is left running (status "ok", which is what the next
\* statement needs).
C18_DivisionByZero ==
  [][ \A op \in {DIV, MOD}, a \in LeftOperands :
        last'.stmt = RunOp(op, a, U120(0, 0)) =>
          /\ status' = "ok"
          /\ (~last'.ok \/ (last'.out.some /\ get_tag(last'.out.val) = NUM)) ]_vars

----------------------------------------------------------------------------
\* Rule selection: functions with numeric and constructor patterns.

Fn_Y == 35
Fn_Z == 36

\* fun Z 1 { !(Z #0) = #10  !(Z #1) = #11  !(Z x) = #20 } = #0
FunZ ==
  AFun(Fn_Z, 1,
       <<<<TFun(Fn_Z, <<TNum(0)>>), TNum(10)>>,
         <<TFun(Fn_Z, <<TNum(1)>>), TNum(11)>>,
         <<TFun(Fn_Z, <<TVar(var_x)>>), TNum(20)>>>>,
       TNum(0))

\* fun Y 1 { !(Y $(P a b)) = #1  !(Y #2) = #2 } = #0
FunY ==
  AFun(Fn_Y, 1,
       <<<<TFun(Fn_Y, <<TCtr(Ct_P, <<TVar(var_a), TVar(var_b)>>)>>), TNum(1)>>,
         <<TFun(Fn_Y, <<TNum(2)>>), TNum(2)>>>>,
       TNum(0))

\* the arguments: numbers hi * 2^60 + lo, and $(P #0 #0)
MatchArgs ==
  {TNum_u120(hi, lo) : hi \in 0..1, lo \in 0..3} \cup {TCtr(Ct_P, <<TNum(0), TNum(0)>>)}

\* run { $(IO.done !(f arg)) }
RunMatch(f, arg) == ARun(IoDone(TFun(f, <<arg>>)))

MaxMatchStmts == 5

MatchCtr == nstmt = 0 /\ StatementOf(CtrP)
MatchFun == nstmt \in 1..2 /\ StatementOf(IF nstmt = 1 THEN FunZ ELSE FunY)
MatchRun ==
  /\ nstmt >= 3 /\ nstmt < MaxMatchStmts
  /\ \E f \in {Fn_Y, Fn_Z}, arg \in MatchArgs : StatementOf(RunMatch(f, arg))

NextMatch == MatchCtr \/ MatchFun \/ MatchRun

SpecMatch == Init /\ [][NextMatch]_vars

\* The rules as the claim reads them: the token of each rule and the number
\* its right-hand side is
NumTok(n) == [k |-> "num", n |-> U120(0, n)]
CtrTok(id) == [k |-> "ctr", id |-> id]
AnyTok == [k |-> "any"]

RulesOf(f) ==
  IF f = Fn_Z THEN <<<<NumTok(0), 10>>, <<NumTok(1), 11>>, <<AnyTok, 20>>>>
  ELSE <<<<CtrTok(Ct_P), 1>>, <<NumTok(2), 2>>>>

\* a numeric token matches the argument Num(n) over the whole value, a
\* constructor token an argument with tag CTR and the same identifier
TokenMatches(tok, arg) ==
  CASE tok.k = "num" -> arg.t = "Num" /\ arg.numb = tok.n
    [] tok.k = "ctr" -> arg.t = "Ctr" /\ arg.name = tok.id
    [] OTHER -> TRUE

\* the first rule in source order that matches, 0 if none does
FirstMatch(f, arg) ==
  LET hits == {i \in 1..Len(RulesOf(f)) : TokenMatches(RulesOf(f)[i][1], arg)}
  IN IF hits = {} THEN 0 ELSE CHOOSE i \in hits : \A j \in hits : i <= j

\* C19 as stated: on a function redex whose argument is in weak head normal
\* form the first rule in source order whose token matches fires, a numeric
\* token n matching exactly Num(n) over the whole 120-bit range, a
\* constructor token exactly the arguments with tag CTR and that identifier,
\* 0 anything; when no rule matches the redex is left as it is.
C19_RuleSelection ==
  [][ \A f \in {Fn_Y, Fn_Z}, arg \in MatchArgs :
        (last'.stmt = RunMatch(f, arg) /\ status' = "ok"
           /\ get_func(RT, Fn_Z) = build_func(FunZ.func)
           /\ get_func(RT, Fn_Y) = build_func(FunY.func)) =>
          /\ last'.ok /\ last'.out.some
          /\ IF FirstMatch(f, arg) = 0
               THEN get_tag(last'.out.val) = FUN /\ get_ext(last'.out.val) = f
               ELSE last'.out.val = Num(RulesOf(f)[FirstMatch(f, arg)][2]) ]_vars

----------------------------------------------------------------------------
\* Malformed function definitions.

\* fun F 1 { !(F x) = #0  !(F x c) = #1 } = #0: rules of different arity
FunArity ==
  AFun(Fn_F, 1,
       <<<<TFun(Fn_F, <<TVar(var_x)>>), TNum(0)>>,
         <<TFun(Fn_F, <<TVar(var_x), TVar(var_c)>>), TNum(1)>>>>,
       TNum(0))

\* fun F 1 { !(F $(P $(P a b) c)) = #0 } = #0: a nested constructor pattern
FunNested ==
  AFun(Fn_F, 1,
       <<<<TFun(Fn_F, <<TCtr(Ct_P, <<TCtr(Ct_P, <<TVar(var_a), TVar(var_b)>>), TVar(var_c)>>)>>),
           TNum(0)>>>>,
       TNum(0))

\* fun F 1 { !(F (+ #1 #2)) = #0 } = #0: a pattern that is no Ctr, Var or Num
FunOp == AFun(Fn_F, 1, <<<<TFun(Fn_F, <<TOp2(ADD, TNum(1), TNum(2))>>), TNum(0)>>>>, TNum(0))

\* fun F 2 { $(P a b) = #0 } = #0: a left-hand side that is no Fun
FunLhs == AFun(Fn_F, 2, <<<<TCtr(Ct_P, <<TVar(var_a), TVar(var_b)>>), TNum(0)>>>>, TNum(0))

\* fun K 1 { !(K x) = #0  $(P a b) = #1 } = #7: the same in a later rule
FunLhsLater ==
  AFun(Fn_K, 1,
       <<<<TFun(Fn_K, <<TVar(var_x)>>), TNum(0)>>,
         <<TCtr(Ct_P, <<TVar(var_a), TVar(var_b)>>), TNum(1)>>>>,
       TNum(7))

MalformedFuns == {FunArity, FunNested, FunOp, FunLhs, FunLhsLater, FunBad}

MaxBadStmts == 4

BadCtr == nstmt = 0 /\ StatementOf(CtrP)
BadFun == nstmt > 0 /\ nstmt < MaxBadStmts /\ \E a \in {FunF, FunK} : StatementOf(a)
BadRun ==
  /\ nstmt > 0 /\ nstmt < MaxBadStmts
  /\ \E a \in {RunCall(Fn_F), RunCall(Fn_K)} : StatementOf(a)
BadMalformed == nstmt > 0 /\ nstmt < MaxBadStmts /\ \E a \in MalformedFuns : StatementOf(a)

NextBad == BadCtr \/ BadFun \/ BadRun \/ BadMalformed

SpecBad == Init /\ [][NextBad]_vars

\* C20: a Fun statement whose rules are malformed (rules of different arity,
\* a nested constructor pattern, a pattern argument that is no Ctr / Var /
\* Num, a left-hand side that is no Fun) defines nothing: the statement
\* fails, draw ends empty, and heap is unchanged, the code, the arity and the
\* disk entry of that name included.
C20_MalformedFun ==
  [][ \A a \in MalformedFuns :
        last'.stmt = a =>
          /\ status' = "ok" /\ ~last'.ok
          /\ draw' = init_heap
          /\ heap' = heap /\ back' = back
          /\ get_func(After, a.name) = get_func(RT, a.name)
          /\ get_arity(After, a.name) = get_arity(RT, a.name)
          /\ read_disk(After, a.name) = read_disk(RT, a.name) ]_vars

\* a malformed fun F has failed where F was defined and had saved its entry
C20_Witness ==
  /\ status = "ok"
  /\ last.stmt = FunNested /\ ~last.ok
  /\ get_func(RT, Fn_F) = build_func(FunF.func)
  /\ get_arity(RT, Fn_F) = 0
  /\ read_disk(RT, Fn_F) = Some(Num(0))
  /\ nstmt = MaxBadStmts

----------------------------------------------------------------------------
\* The name codec.  A name is the sequence of the codes of its characters.

\* the value of a character in name_to_u128 (hvm.rs 2087-2097); a character
\* outside the alphabet adds nothing
char_value(chr) ==
  IF chr = 46 THEN SomeInt(0)
  ELSE IF chr >= 48 /\ chr <= 57 THEN SomeInt(1 + chr - 48)
  ELSE IF chr >= 65 /\ chr <= 90 THEN SomeInt(11 + chr - 65)
  ELSE IF chr >= 97 /\ chr <= 122 THEN SomeInt(37 + chr - 97)
  ELSE IF chr = 95 THEN SomeInt(63)
  ELSE NoneInt

\* name_to_u128 (hvm.rs 2085-2101), from `num` on
RECURSIVE name_to_u128_from(_, _)
name_to_u128_from(num, code) ==
  IF code = <<>> THEN num
  ELSE name_to_u128_from(IF char_value(Head(code)).some
                           THEN num * 64 + char_value(Head(code)).val
                           ELSE num,
                         Tail(code))

name_to_u128(code) == name_to_u128_from(0, code)

\* u8 arithmetic of U128_to_name: chr - k + base, which overflows when
\* chr < k; with overflow checks it panics, without them it wraps modulo 256
u8_char(oc, chr, k, base) ==
  IF chr >= k THEN [status |-> "ok", push |-> <<chr - k + base>>]
  ELSE IF oc THEN [status |-> "panic: attempt to subtract with overflow", push |-> <<>>]
  ELSE [status |-> "ok", push |-> <<(chr - k + 256 + base) % 256>>]

\* the character U128_to_name pushes for the digit chr (hvm.rs 2109-2119)
name_char(oc, chr) ==
  IF chr = 0 THEN [status |-> "ok", push |-> <<46>>]
  ELSE IF chr < 10 THEN [status |-> "ok", push |-> <<chr + 0 + 48>>]
  ELSE IF chr < 36 THEN u8_char(oc, chr, 11, 65)
  ELSE IF chr < 62 THEN u8_char(oc, chr, 37, 97)
  ELSE IF chr = 63 THEN [status |-> "ok", push |-> <<95>>]
  ELSE [status |-> "ok", push |-> <<>>]

\* U128_to_name (hvm.rs 2104-2123): `name` is pushed lowest digit first and
\* reversed in the end, so a push goes in front here
RECURSIVE U128_to_name_from(_, _, _)
U128_to_name_from(oc, num, name) ==
  IF num <= 0 THEN [status |-> "ok", name |-> name]
  ELSE LET c == name_char(oc, num % 64)
       IN IF c.status # "ok" THEN [status |-> c.status, name |-> name]
          ELSE U128_to_name_from(oc, num \div 64, c.push \o name)

U128_to_name(oc, num) == U128_to_name_from(oc, num, <<>>)

\* characters of every class of the alphabet: . 0 1 9 A B Z a z _
NameChars == {46, 48, 49, 57, 65, 66, 90, 97, 122, 95}
MaxNameLen == 3

Names ==
  {s \in UNION {[1..n -> NameChars] : n \in 1..MaxNameLen} : s[1] # 46}

\* name_to_u128 on a name, then U128_to_name on the number
Encode ==
  /\ status = "ok" /\ last.op = "init"
  /\ \E s \in Names :
       last' = [Obs("name_to_u128", TRUE, init_heap, <<>>, name_to_u128(s)) EXCEPT !.stmt = s]
  /\ UNCHANGED <<draw, heap, back, nuls, VARS_DATA, status, overflow_checks, nstmt, ntick,
                 nroll, mark>>

Decode ==
  /\ status = "ok" /\ last.op = "name_to_u128"
  /\ LET r == U128_to_name(overflow_checks, last.T)
     IN /\ status' = r.status
        /\ last' = [Obs("U128_to_name", r.status = "ok", init_heap, <<>>, last.T)
                      EXCEPT !.stmt = last.stmt, !.log = r.name]
  /\ UNCHANGED <<draw, heap, back, nuls, VARS_DATA, overflow_checks, nstmt, ntick, nroll, mark>>

NextName == Encode \/ Decode

SpecName == Init /\ [][NextName]_vars

RECURSIVE pow64(_)
pow64(n) == IF n = 0 THEN 1 ELSE 64 * pow64(n - 1)

\* C21 as stated: for every name over the alphabet that does not start with
\* `.`, U128_to_name(name_to_u128(s)) = s, name_to_u128 is injective on those
\* names and stays below the bound of its length (64^n for n characters, 2^120
\* for 20).
C21_NameRoundTrip ==
  [][ /\ last'.op = "name_to_u128" =>
           /\ last'.T >= 0 /\ last'.T < pow64(Len(last'.stmt))
           /\ \A t \in Names : name_to_u128(t) = last'.T => t = last'.stmt
      /\ last'.op = "U128_to_name" =>
           /\ status' = "ok"
           /\ last'.log = last'.stmt ]_vars

----------------------------------------------------------------------------
\* Two runtimes driven by the same statements.  The first is the runtime of
\* the state variables; the second is kept whole in `mark`.  Each draws its
\* own positions from fastrand.

\* run { $(P #0 λr #0) }: no IO constructor, and r is never used
RunLeaveR == ARun(TCtr(Ct_P, <<TNum(0), TLam(var_r, TNum(0))>>))

\* run { λr λq #0 }: no IO constructor, and q is never used
RunLeaveQ == ARun(TLam(var_r, TLam(var_q, TNum(0))))

\* run { $(IO.done (+ (+ #0 #0) (+ #0 (+ #7 (λq #1 #2))))) }
RunAddSeven ==
  ARun(IoDone(TOp2(ADD, TOp2(ADD, TNum(0), TNum(0)),
                   TOp2(ADD, TNum(0),
                        TOp2(ADD, TNum(7), TApp(TLam(var_q, TNum(1)), TNum(2)))))))

RandStatements == {RunLeaveR, RunLeaveQ, RunAddSeven, RunSeven, CtrP}

\* what fastrand::u64(..) % HEAP_SIZE yields when a probe fails
RandSeqs == {<<8>>, <<20>>}

MaxRandStmts == 3

\* the second runtime
Twin == IF nstmt = 0 /\ ntick = 0 THEN RT ELSE mark

TwinStatement(a, r1, r2) ==
  /\ status = "ok" /\ Twin.status = "ok"
  /\ LET done(d1, d2) ==
           /\ Commit(d1.rt)
           /\ mark' = [d2.rt EXCEPT !.rand = <<>>]
           /\ last' = [Obs(a.t, d1.ok, d1.staged, d1.log, [ok |-> d2.ok, out |-> d2.out])
                         EXCEPT !.out = d1.out, !.stmt = a]
     IN done(do_action([RT EXCEPT !.rand = r1], a), do_action([Twin EXCEPT !.rand = r2], a))
  /\ nstmt' = nstmt + 1
  /\ UNCHANGED <<overflow_checks, ntick, nroll>>

RandStatement ==
  /\ nstmt < MaxRandStmts
  /\ \E a \in RandStatements, r1 \in RandSeqs, r2 \in RandSeqs : TwinStatement(a, r1, r2)

RandTick ==
  /\ status = "ok" /\ Twin.status = "ok"
  /\ nstmt > 0 /\ ntick < 1
  /\ Commit(tick(RT))
  /\ mark' = tick(Twin)
  /\ last' = Obs("tick", tick(RT).status = "ok", draw, <<>>, 0)
  /\ ntick' = ntick + 1
  /\ UNCHANGED <<overflow_checks, nstmt, nroll>>

NextRand == RandStatement \/ RandTick

SpecRand == Init /\ [][NextRand]_vars

\* what of a link is the same whatever the positions are: its tag and, of a
\* number, its value
Shown(opt) ==
  IF ~opt.some THEN <<"none">>
  ELSE IF get_tag(opt.val) = NUM THEN <<"num", get_num(opt.val)>>
  ELSE <<"term", get_tag(opt.val)>>

\* C22 as stated: two runtimes started by init_runtime and driven by the same
\* statements and ticks end in the same observable state (success and
\* reported value of every Run, tick, the term under every disk entry, the
\* function code), whatever positions the allocator's random restarts choose.
C22_Determinism ==
  [][ (status' = "ok" /\ mark'.status = "ok") =>
        /\ last'.op = "Run" =>
             /\ last'.ok = last'.T.ok
             /\ Shown(last'.out) = Shown(last'.T.out)
        /\ get_with(0, U128_NONE, [i \in 1..Len(Layers(After)) |-> Layers(After)[i].tick])
             = get_with(0, U128_NONE, [i \in 1..Len(Layers(mark')) |-> Layers(mark')[i].tick])
        /\ \A f \in Fids \cup {0} :
             /\ Shown(read_disk(After, f)) = Shown(read_disk(mark', f))
             /\ get_func(After, f) = get_func(mark', f) ]_vars

----------------------------------------------------------------------------
\* Statements taken one step of the interpreter at a time.  The machine of the
\* running statement is kept in `mark`; last.op is "begin" or "step" while a
\* statement runs.

Fn_L == 22

\* fun L 0 { !(L) = !(L) } = #0: the only rule rewrites to itself
FunL == AFun(Fn_L, 0, <<<<TFun(Fn_L, <<>>), TFun(Fn_L, <<>>)>>>>, TNum(0))

\* run { $(IO.done !(L)) }
RunLoop == ARun(IoDone(TFun(Fn_L, <<>>)))

\* run { $(IO.done (+ #1 (+ #2 #3))) }
RunAdd == ARun(IoDone(TOp2(ADD, TNum(1), TOp2(ADD, TNum(2), TNum(3)))))

LoopStatements == {FunL, RunLoop, RunAdd, RunSeven, RunCall(Fn_L)}

MaxLoopStmts == 3

\* the cost budget of a statement; the steps are followed for MaxOver rule
\* firings beyond it
Budget == 3
MaxOver == 2

Running == last.op \in {"begin", "step"}

\* the cost the running statement has added
Spent(m) == get_cost(m.rt) - get_cost(RT)

LoopBegin ==
  /\ status = "ok" /\ ~Running /\ nstmt < MaxLoopStmts
  /\ \E a \in LoopStatements :
       /\ mark' = Machine(RT, <<KAction(a)>>)
       /\ last' = [Obs("begin", FALSE, draw, <<>>, 0) EXCEPT !.stmt = a]
  /\ UNCHANGED <<draw, heap, back, nuls, VARS_DATA, status, overflow_checks, nstmt, ntick,
                 nroll>>

LoopStep ==
  /\ Running /\ ~Halted(mark) /\ Spent(mark) < Budget + MaxOver
  /\ mark' = step(mark)
  /\ last' = [last EXCEPT !.op = "step", !.T = Spent(step(mark))]
  /\ UNCHANGED <<draw, heap, back, nuls, VARS_DATA, status, overflow_checks, nstmt, ntick,
                 nroll>>

LoopEnd ==
  /\ Running /\ Halted(mark)
  /\ LET done(d) ==
           /\ Commit(d.rt)
           /\ last' = [Obs(last.stmt.t, d.ok, d.staged, d.log, Spent(mark))
                         EXCEPT !.out = d.out, !.stmt = last.stmt]
     IN done(Statement_result(mark))
  /\ mark' = EmptyMap
  /\ nstmt' = nstmt + 1
  /\ UNCHANGED <<overflow_checks, ntick, nroll>>

NextLoop == LoopBegin \/ LoopStep \/ LoopEnd

SpecLoop == Init /\ [][NextLoop]_vars

\* C23 as stated: a Run statement whose reduction exceeds the cost budget
\* ends as a statement failure with draw discarded and heap unchanged: once
\* the running statement has spent more than the budget, what comes next is
\* its failure, not one more step of the reduction.
C23_BoundedExecution ==
  [][ (Running /\ last.stmt.t = "Run" /\ Spent(mark) > Budget) =>
        /\ last'.op = "Run" /\ ~last'.ok
        /\ draw' = init_heap
        /\ heap' = heap ]_vars

----------------------------------------------------------------------------
\* The Heap as a unit: its writers (hvm.rs 222-287) applied to two heaps, the
\* committed `heap` and the staging `draw`, and heap.absorb(&mut draw, overwrite).

Heap_write(h, idx, val) == [h EXCEPT !.data = Blob_write(@, idx, val)]
Heap_read(h, idx) == Blob_read(h.data, idx)
Heap_write_disk(h, fid, val) == [h EXCEPT !.disk = Disk_write(@, fid, val)]
Heap_read_disk(h, fid) == Disk_read(h.disk, fid)
Heap_write_file(h, fid, fun) == [h EXCEPT !.file = File_write(@, fid, fun)]
Heap_read_file(h, fid) == IF fid \in DOMAIN h.file THEN Some(h.file[fid]) ELSE None
Heap_write_arit(h, fid, val) == [h EXCEPT !.arit = Arit_write(@, fid, val)]
Heap_read_arit(h, fid) == IF fid \in DOMAIN h.arit THEN Some(h.arit[fid]) ELSE None

Scalars == {"tick", "funs", "dups", "cost", "mana", "size", "next"}

\* set_tick .. set_next
Heap_set(h, field, val) == [h EXCEPT ![field] = val]
\* get_tick .. get_next
Heap_get(h, field) == h[field]

HeapCells == {1}
HeapWords == {Num(1), Num(2)}
HeapFids == {Fn_F}
HeapFuncs == {build_func(FunF.func).val, build_func(FunK.func).val}
HeapArits == {0, 1}
HeapScalars == {1, 2}

\* the heaps one writer call makes of h
HeapWritten(h) ==
  {Heap_write(h, i, w) : i \in HeapCells, w \in HeapWords}
    \cup {Heap_write_disk(h, f, w) : f \in HeapFids, w \in HeapWords}
    \cup {Heap_write_file(h, f, c) : f \in HeapFids, c \in HeapFuncs}
    \cup {Heap_write_arit(h, f, n) : f \in HeapFids, n \in HeapArits}
    \cup {Heap_set(h, s, n) : s \in Scalars, n \in HeapScalars}

MaxHeapOps == 3

HeapWriter ==
  /\ nstmt < MaxHeapOps
  /\ \/ draw' \in HeapWritten(draw) /\ heap' = heap
     \/ heap' \in HeapWritten(heap) /\ draw' = draw
  /\ last' = [Obs("write", TRUE, draw', <<>>, 0) EXCEPT !.stmt = heap]
  /\ nstmt' = nstmt + 1
  /\ UNCHANGED <<back, nuls, VARS_DATA, status, overflow_checks, ntick, nroll, mark>>

\* heap.absorb(&mut draw, overwrite); last keeps both heaps as they were
HeapAbsorb ==
  /\ last.op # "absorb"
  /\ \E overwrite \in BOOLEAN :
       /\ heap' = Heap_absorb(heap, draw, overwrite)
       /\ draw' = Heap_drained(draw)
       /\ last' = [Obs("absorb", overwrite, draw, <<>>, 0) EXCEPT !.stmt = heap]
  /\ UNCHANGED <<back, nuls, VARS_DATA, status, overflow_checks, nstmt, ntick, nroll, mark>>

NextHeap == HeapWriter \/ HeapAbsorb

SpecHeap == Init /\ [][NextHeap]_vars

\* every read a heap answers
Reads(h) ==
  [cell |-> [i \in HeapCells |-> Heap_read(h, i)],
   disk |-> [f \in HeapFids |-> Heap_read_disk(h, f)],
   file |-> [f \in HeapFids |-> Heap_read_file(h, f)],
   arit |-> [f \in HeapFids |-> Heap_read_arit(h, f)],
   scalar |-> [s \in Scalars |-> Heap_get(h, s)]]

\* C24: absorbing a heap h into an empty heap with overwrite = true gives a heap
\* that answers every read (cells, disk entries, function codes, arities and
\* scalars) exactly as h did before the absorb.
C24_SnapshotRoundTrip ==
  [][ (last'.op = "absorb" /\ last'.ok /\ heap = init_heap) =>
        Reads(heap') = Reads(draw) ]_vars

\* an empty heap has absorbed a heap holding a cell, a function's code and a scalar
C24_Witness ==
  /\ last.op = "absorb" /\ last.ok /\ last.stmt = init_heap
  /\ Heap_read(last.staged, 1) = Num(2)
  /\ Heap_read_file(last.staged, Fn_F).some
  /\ Heap_get(last.staged, "tick") = 2
  /\ Reads(heap) = Reads(last.staged)

\* C25: after a.absorb(b, overwrite = true) every read that b answered with a
\* non-absent value before the absorb (a cell, a disk entry, a function's code,
\* an arity, a scalar) is answered by a with that same value, also when a held
\* a value for that key.
C25_NewerWritesWin ==
  [][ (last'.op = "absorb" /\ last'.ok) =>
        /\ \A i \in HeapCells :
             Heap_read(draw, i) # NoneLnk => Heap_read(heap', i) = Heap_read(draw, i)
        /\ \A f \in HeapFids :
             /\ Heap_read_disk(draw, f).some => Heap_read_disk(heap', f) = Heap_read_disk(draw, f)
             /\ Heap_read_file(draw, f).some => Heap_read_file(heap', f) = Heap_read_file(draw, f)
             /\ Heap_read_arit(draw, f).some => Heap_read_arit(heap', f) = Heap_read_arit(draw, f)
        /\ \A s \in Scalars :
             Heap_get(draw, s) # init_heap[s] => Heap_get(heap', s) = Heap_get(draw, s) ]_vars

----------------------------------------------------------------------------
\* Duplication, followed one step of the interpreter at a time: the machine of
\* the running statement is kept in `mark`, last.T counts the duplication
\* rewrites the statement has fired.

\* run { & a b = #7; $(IO.done (+ a b)) }
RunDupNum ==
  ARun(TDup(var_a, var_b, TNum(7), IoDone(TOp2(ADD, TVar(var_a), TVar(var_b)))))

\* run { & a b = λx x; $(IO.done (a (b #0))) }
RunDupLam ==
  ARun(TDup(var_a, var_b, TLam(var_x, TVar(var_x)),
            IoDone(TApp(TVar(var_a), TApp(TVar(var_b), TNum(0))))))

\* run { & a b = $(P #1 #2); $(IO.done $(P a b)) }
RunDupCtr ==
  ARun(TDup(var_a, var_b, TCtr(Ct_P, <<TNum(1), TNum(2)>>),
            IoDone(TCtr(Ct_P, <<TVar(var_a), TVar(var_b)>>))))

\* run { & a ~ = #7; #0 }: no IO term, the statement fails
RunLeaveA == ARun(TDup(var_a, VAR_NONE, TNum(7), TNum(0)))

\* run { & c ~ = #8; $(IO.done (+ c a)) }
RunUseA ==
  ARun(TDup(var_c, VAR_NONE, TNum(8), IoDone(TOp2(ADD, TVar(var_c), TVar(var_a)))))

\* run { & a b = #7; & c q = #8; $(IO.done (+ (+ a b) (+ c q))) }
RunTwoDups ==
  ARun(TDup(var_a, var_b, TNum(7),
         TDup(var_c, var_q, TNum(8),
           IoDone(TOp2(ADD, TOp2(ADD, TVar(var_a), TVar(var_b)),
                            TOp2(ADD, TVar(var_c), TVar(var_q)))))))

\* run { & a b = λx & c q = x; (* c q); $(IO.done (+ (a #1) (b #5))) }
RunSquare ==
  ARun(TDup(var_a, var_b,
            TLam(var_x, TDup(var_c, var_q, TVar(var_x), TOp2(MUL, TVar(var_c), TVar(var_q)))),
            IoDone(TOp2(ADD, TApp(TVar(var_a), TNum(1)), TApp(TVar(var_b), TNum(5))))))

DupStatements ==
  {CtrP, RunDupNum, RunDupLam, RunDupCtr, RunLeaveA, RunUseA, RunTwoDups, RunSquare}

MaxDupStmts == 2

\* a statement is followed until the stack of a reduce holds MaxDupStack hosts
MaxDupStack == 12

StackDepth(m) == IF Top(m).k = "reduce" THEN Len(Top(m).stack) ELSE 0

\* reduce is about to fire a duplication rewrite (hvm.rs 1438-1546)
DupFiring(m) ==
  /\ ~Halted(m)
  /\ Top(m).k = "reduce"
  /\ ~Top(m).fin
  /\ Top(m).init = 0
  /\ LET term == ask_lnk(m.rt, Top(m).host)
     IN /\ get_tag(term) \in {DP0, DP1}
        /\ reduce_rule(m.rt, Top(m).host, term, get_tag(term)).some

DupBegin ==
  /\ status = "ok" /\ ~Running /\ nstmt < MaxDupStmts
  /\ \E a \in DupStatements :
       /\ mark' = Machine(RT, <<KAction(a)>>)
       /\ last' = [Obs("begin", FALSE, draw, <<>>, 0) EXCEPT !.stmt = a]
  /\ UNCHANGED <<draw, heap, back, nuls, VARS_DATA, status, overflow_checks, nstmt, ntick,
                 nroll>>

DupStep ==
  /\ Running /\ ~Halted(mark) /\ StackDepth(mark) < MaxDupStack
  /\ mark' = step(mark)
  /\ last' = [last EXCEPT !.op = "step", !.T = IF DupFiring(mark) THEN @ + 1 ELSE @]
  /\ UNCHANGED <<draw, heap, back, nuls, VARS_DATA, status, overflow_checks, nstmt, ntick,
                 nroll>>

NextDup == DupBegin \/ DupStep \/ LoopEnd

SpecDup == Init /\ [][NextDup]_vars

\* the cells that hold a projection of the dup node at loc
Holders(rt, loc) ==
  {p \in (DOMAIN rt.draw.data) \cup (DOMAIN rt.heap.data) :
     /\ ask_lnk(rt, p) # ZeroLnk
     /\ get_tag(ask_lnk(rt, p)) \in {DP0, DP1}
     /\ get_val(ask_lnk(rt, p)) = loc}

\* the dup node the firing projection `term`, held at host, points to has this
\* projection and its partner as its only consumers: its back-pointer names host,
\* the partner's is an erasure or names the cell that holds the partner, and no
\* other cell holds a projection of the node
Affine(rt, host, term) ==
  LET side == IF get_tag(term) = DP0 THEN 0 ELSE 1
      mine == ask_arg(rt, term, side)
      other == ask_arg(rt, term, 1 - side)
      partner == W(IF side = 0 THEN DP1 ELSE DP0, get_ext(term), get_val(term))
  IN /\ mine = Arg(host)
     /\ \/ other = Era
        \/ get_tag(other) = ARG /\ ask_lnk(rt, get_loc(other, 0)) = partner
     /\ Holders(rt, get_val(term)) \subseteq
          {host} \cup (IF get_tag(other) = ARG THEN {get_loc(other, 0)} ELSE {})

\* C26: whenever a duplication rewrite fires, the pair of projections it
\* consumes are the only consumers of the dup node (the rewrite replaces both
\* through the back-pointers L+0 and L+1, so the pair takes part in this one
\* rewrite only), and no third cell refers to the node.
C26_Affinity ==
  (Running /\ DupFiring(mark)) =>
     Affine(mark.rt, Top(mark).host, ask_lnk(mark.rt, Top(mark).host))

\* the projections of dup nodes held in the cells of the runtime
Projections(rt) ==
  {ask_lnk(rt, p) : p \in {q \in (DOMAIN rt.draw.data) \cup (DOMAIN rt.heap.data) :
                              /\ ask_lnk(rt, q) # ZeroLnk
                              /\ get_tag(ask_lnk(rt, q)) \in {DP0, DP1}}}

\* C29: two distinct Dup nodes materialized by create_term carry different
\* colors.  Stated while the running statement has fired no rule, when every
\* projection in the graph stems from create_term.
C29_UniqueColors ==
  (Running /\ Spent(mark) = 0) =>
     \A d1 \in Projections(mark.rt), d2 \in Projections(mark.rt) :
        get_val(d1) # get_val(d2) => get_ext(d1) # get_ext(d2)

----------------------------------------------------------------------------
\* A run of ticks without rollback.  `mark` keeps, for each level of the
\* rollback stack (1 is the top), the tick whose push last replaced its
\* snapshot.

MaxKeepTicks == 280

\* the push of this step put a new snapshot at level i: the level is new, or
\* its keep counter went from KEEP_MAX to 0
Replaced(i) ==
  /\ i <= Len(back')
  /\ back'[i].keep = 0
  /\ i > Len(back) \/ back[i].keep = KEEP_MAX

KeepFun ==
  /\ nstmt = 0 /\ ntick = 0
  /\ Statement(FunK)

KeepTick ==
  /\ status = "ok" /\ ntick < MaxKeepTicks
  /\ LET ticked(t) ==
           /\ Commit(t)
           /\ last' = Obs("tick", t.status = "ok", draw, <<>>, 0)
     IN ticked(tick(RT))
  /\ ntick' = ntick + 1
  /\ mark' = [i \in 1..Len(back') |-> IF Replaced(i) THEN ntick + 1 ELSE mark[i]]
  /\ UNCHANGED <<overflow_checks, nstmt, nroll>>

NextKeep == KeepFun \/ KeepTick

SpecKeep == Init /\ [][NextKeep]_vars

RECURSIVE Log16(_)
Log16(n) == IF n < 16 THEN 0 ELSE 1 + Log16(n \div 16)

RECURSIVE pow16(_)
pow16(k) == IF k = 0 THEN 1 ELSE 16 * pow16(k - 1)

\* C27: after n ticks without rollback the rollback stack holds at most
\* floor(log16(n)) + 1 snapshots, level k exists exactly from tick
\* (16^k - 1) / 15 on, every keep counter is in 0..15, and the snapshot at
\* height h from the top is replaced at most once every 16^h ticks.
C27_LogarithmicRetention ==
  [][ (last'.op = "tick" /\ status' = "ok") =>
        /\ Len(back') <= Log16(ntick') + 1
        /\ \A k \in 1..(NULS_INIT - 1) : (Len(back') >= k) <=> (ntick' >= (pow16(k) - 1) \div 15)
        /\ \A i \in 1..Len(back') : back'[i].keep \in 0..KEEP_MAX
        /\ \A i \in 1..Len(back) : Replaced(i) => ntick' - mark[i] >= pow16(i - 1) ]_vars

\* tick 273 has made the third level
C27_Witness ==
  /\ status = "ok" /\ last.op = "tick" /\ ntick = 273
  /\ Len(back) = 3
  /\ mark[3] = 273 /\ mark[2] = 273 /\ mark[1] = 273

----------------------------------------------------------------------------
\* Ticks with calls of the counter K between some of them.  `mark` keeps, for
\* each tick number a tick() has committed, what the runtime read right after
\* that tick was absorbed.

MaxPrefixTicks == 34
PrefixRunAt == {0, 1, 16, 17, 32, 33}
ViewCells == 0..7

\* what the runtime reads: cells, disk entries, code, arities and the scalars
\* other than the tick
View(rt) ==
  [cell |-> [c \in ViewCells |-> Runtime_read(rt, c)],
   disk |-> DiskView(rt),
   code |-> [f \in Fids |-> get_func(rt, f)],
   arit |-> [f \in Fids |-> get_arity(rt, f)],
   size |-> get_size(rt),
   next |-> get_next(rt),
   cost |-> get_cost(rt)]

\* the runtime made of the i-th snapshot of the rollback stack and the ones below
From(rt, i) ==
  [rt EXCEPT !.draw = init_heap, !.heap = init_heap,
             !.back = SubSeq(rt.back, i, Len(rt.back))]

PrefixFun ==
  /\ nstmt = 0 /\ ntick = 0
  /\ Statement(FunK)

PrefixRun ==
  /\ nstmt > 0
  /\ ntick \in PrefixRunAt
  /\ last.op \in {"Fun", "tick"}
  /\ Statement(RunCall(Fn_K))

PrefixTick ==
  /\ status = "ok" /\ ntick < MaxPrefixTicks
  /\ LET ticked(t, L) ==
           /\ Commit(t)
           /\ last' = Obs("tick", t.status = "ok", draw, <<>>, 0)
           /\ mark' = IF t.status = "ok"
                        THEN (get_with(0, U128_NONE, [i \in 1..Len(L) |-> L[i].tick])
                                :> View(t)) @@ mark
                        ELSE mark
     IN ticked(tick(RT), Layers(tick(RT)))
  /\ ntick' = ntick + 1
  /\ UNCHANGED <<overflow_checks, nstmt, nroll>>

NextPrefix == PrefixFun \/ PrefixRun \/ PrefixTick

SpecPrefix == Init /\ [][NextPrefix]_vars

\* C28: after a tick, the layered read through each retained snapshot and the
\* snapshots below it equals what the runtime read right after the tick the
\* snapshot carries was absorbed, and the tick (with its thinning) leaves every
\* read made through the current draw -> heap -> back chain as it was.
C28_PrefixOfHistory ==
  [][ (last'.op = "tick" /\ status' = "ok") =>
        /\ \A i \in 1..Len(back') :
             /\ back'[i].head.tick \in DOMAIN mark'
             /\ View(From(After, i)) = mark'[back'[i].head.tick]
        /\ View(After) = View(RT) ]_vars

----------------------------------------------------------------------------
\* Rules with wildcard variables, followed one step of the interpreter at a
\* time.  last.T keeps the values the rule that fired last bound to its
\* wildcard variables.

Fn_E == 15
Fn_I == 19
Fn_W == 33
var_y == 61

\* fun E 1 { !(E ~) = #0 } = #0
FunE == AFun(Fn_E, 1, <<<<TFun(Fn_E, <<TVar(VAR_NONE)>>), TNum(0)>>>>, TNum(0))

\* fun W 1 { !(W $(P ~ y)) = y } = #0
FunW ==
  AFun(Fn_W, 1,
       <<<<TFun(Fn_W, <<TCtr(Ct_P, <<TVar(VAR_NONE), TVar(var_y)>>)>>), TVar(var_y)>>>>,
       TNum(0))

\* fun I 1 { !(I x) = x } = #0
FunI == AFun(Fn_I, 1, <<<<TFun(Fn_I, <<TVar(var_x)>>), TVar(var_x)>>>>, TNum(0))

\* run { $(IO.done !(E $(P #1 #2))) }
RunEraseP == ARun(IoDone(TFun(Fn_E, <<TCtr(Ct_P, <<TNum(1), TNum(2)>>)>>)))

\* run { $(IO.done !(W $(P λx x #3))) }
RunEraseField ==
  ARun(IoDone(TFun(Fn_W, <<TCtr(Ct_P, <<TLam(var_x, TVar(var_x)), TNum(3)>>)>>)))

\* run { $(IO.done !(I #3)) }
RunKeep == ARun(IoDone(TFun(Fn_I, <<TNum(3)>>)))

EraseStatements == {CtrP, FunE, FunW, FunI, RunEraseP, RunEraseField, RunKeep}

MaxEraseStmts == 3

\* the values the rule of the frame f binds to its wildcard variables (hvm.rs 1680-1688)
ErasedValues(rt, f) ==
  LET value(v) ==
        IF v.field.some
          THEN ask_arg(rt, ask_arg(rt, f.term, v.param), v.field.val)
          ELSE ask_arg(rt, f.term, v.param)
  IN {value(f.rule.vars[j]) : j \in {i \in 1..Len(f.rule.vars) : f.rule.vars[i].erase}}

\* the cells of the node a link points to
NodeCells(rt, lnk) ==
  IF get_tag(lnk) \in {LAM, APP, PAR, OP2} THEN {get_loc(lnk, 0), get_loc(lnk, 1)}
  ELSE IF get_tag(lnk) \in {CTR, FUN}
    THEN {get_loc(lnk, i) : i \in 0..(get_arity(rt, get_ext(lnk)) - 1)}
  ELSE {}

EraseBegin ==
  /\ status = "ok" /\ ~Running /\ nstmt < MaxEraseStmts
  /\ \E a \in EraseStatements :
       /\ mark' = Machine(RT, <<KAction(a)>>)
       /\ last' = [Obs("begin", FALSE, draw, <<>>, {}) EXCEPT !.stmt = a]
  /\ UNCHANGED <<draw, heap, back, nuls, VARS_DATA, status, overflow_checks, nstmt, ntick,
                 nroll>>

EraseStep ==
  /\ Running /\ ~Halted(mark)
  /\ mark' = step(mark)
  /\ last' = [last EXCEPT !.op = "step",
                          !.T = IF Top(mark).k = "rule_built"
                                  THEN ErasedValues(mark.rt, Top(mark)) ELSE @]
  /\ UNCHANGED <<draw, heap, back, nuls, VARS_DATA, status, overflow_checks, nstmt, ntick,
                 nroll>>

NextErase == EraseBegin \/ EraseStep \/ LoopEnd

SpecErase == Init /\ [][NextErase]_vars

\* the loop that collects the erased variables of the rule has ended
RuleDone(m) ==
  /\ ~Halted(m)
  /\ Top(m).k = "collect_erased"
  /\ Top(m).i > Len(Top(m).rvars)

\* C30: when a rule has fired and its erased variables have been collected, no
\* cell of a value bound to a wildcard variable stays allocated and no entry of
\* the scratch table points at such a value.
C30_ErasedFreed ==
  (Running /\ RuleDone(mark)) =>
     \A v \in last.T :
        /\ \A c \in NodeCells(mark.rt, v) : ask_lnk(mark.rt, c) = ZeroLnk
        /\ NodeCells(mark.rt, v) # {} =>
             \A n \in DOMAIN mark.rt.vars : mark.rt.vars[n] # v

-----------------------------------------------------------------------------
\* Writes to the three metadata maps of one heap (hvm.rs 390-449), with the
\* values written to every key since the last clear remembered in `mark`

MetaKinds == {"disk", "file", "arit"}
MetaFids == {Fn_F, Fn_G}
MetaValues(kind) ==
  IF kind = "disk" THEN HeapWords
  ELSE IF kind = "file" THEN HeapFuncs
  ELSE {1, 2}

\* h after write_disk / write_file / write_arit
MetaWrite(h, kind, fid, val) ==
  IF kind = "disk" THEN Heap_write_disk(h, fid, val)
  ELSE IF kind = "file" THEN Heap_write_file(h, fid, val)
  ELSE Heap_write_arit(h, fid, val)

\* what read_disk / read_file / read_arit answers
MetaRead(h, kind, fid) ==
  IF kind = "disk" THEN Heap_read_disk(h, fid)
  ELSE IF kind = "file" THEN Heap_read_file(h, fid)
  ELSE Heap_read_arit(h, fid)

NoWrites == [kind \in MetaKinds |-> EmptyMap]

MaxMetaOps == 6

\* the first and the latest value written to every key since the last clear
Written == IF DOMAIN mark = {} THEN [first |-> NoWrites, latest |-> NoWrites] ELSE mark

MetaWriter ==
  /\ nstmt < MaxMetaOps
  /\ \E kind \in MetaKinds, fid \in MetaFids :
       \E val \in MetaValues(kind) :
          /\ draw' = MetaWrite(draw, kind, fid, val)
          /\ mark' = [first |-> [Written.first EXCEPT ![kind] = @ @@ (fid :> val)],
                      latest |-> [Written.latest EXCEPT ![kind] = (fid :> val) @@ @]]
          /\ last' = Obs("write", TRUE, draw, <<>>, 0)
  /\ nstmt' = nstmt + 1
  /\ UNCHANGED <<heap, back, nuls, VARS_DATA, status, overflow_checks, ntick, nroll>>

\* Heap::clear, which clears the three maps
MetaClear ==
  /\ nstmt < MaxMetaOps
  /\ last.op = "write"
  /\ draw' = Heap_clear(draw)
  /\ mark' = [first |-> NoWrites, latest |-> NoWrites]
  /\ last' = Obs("clear", TRUE, draw, <<>>, 0)
  /\ nstmt' = nstmt + 1
  /\ UNCHANGED <<heap, back, nuls, VARS_DATA, status, overflow_checks, ntick, nroll>>

NextMeta == MetaWriter \/ MetaClear

SpecMeta == Init /\ [][NextMeta]_vars

\* read(fid) of the map `kind` answers the value `written` remembers for fid,
\* and nothing for a key that was not written
Answers(kind, written) ==
  \A fid \in MetaFids :
     /\ MetaRead(draw, kind, fid).some <=> fid \in DOMAIN written[kind]
     /\ fid \in DOMAIN written[kind] => MetaRead(draw, kind, fid).val = written[kind][fid]

\* C31 as stated: the three metadata maps (disk, file, arit) have
\* insert-if-absent writes: a write to a key that already holds a value leaves
\* the stored value unchanged, and read keeps returning the first value written
\* since the last clear.
C31_InsertIfAbsent ==
  \A kind \in MetaKinds : Answers(kind, Written.first)

\* C31, amended: file and arit have insert-if-absent writes (read returns the
\* first value written since the last clear); the write of disk replaces the
\* stored value (read returns the value written last).
C31_FileAritInsertDiskReplace ==
  /\ Answers("file", Written.first)
  /\ Answers("arit", Written.first)
  /\ Answers("disk", Written.latest)

\* every map has been written twice at one key, with two different values
C31_Witness ==
  \A kind \in MetaKinds :
     \E fid \in DOMAIN Written.first[kind] :
        Written.first[kind][fid] # Written.latest[kind][fid]

-----------------------------------------------------------------------------
\* The scratch table across materializations, one machine step per action

\* run { $(IO.done (λx #1 #2)) }: the lambda's variable is never used
RunUnusedLam == ARun(IoDone(TApp(TLam(var_x, TNum(1)), TNum(2))))

\* run { $(IO.done (λx (+ x x) #2)) }: the lambda's variable is used twice
RunTwice ==
  ARun(IoDone(TApp(TLam(var_x, TOp2(ADD, TVar(var_x), TVar(var_x))), TNum(2))))

\* run { $(IO.done (+ x #1)) }: x has no binder
RunFreeX == ARun(IoDone(TOp2(ADD, TVar(var_x), TNum(1))))

ScratchStatements == {RunLeaveA, RunUseA, RunUnusedLam, RunTwice, RunFreeX, FunI, RunKeep}

MaxScratchStmts == 3

\* the steps followed of one statement: a statement that consumes a stale
\* entry can reduce without end
MaxScratchSteps == 100

\* the names call_function stores before it builds a rule's right-hand side
\* (hvm.rs 1676-1688)
RuleNames(f) == {f.rule.vars[j].name : j \in 1..Len(f.rule.vars)}

\* the step of m calls create_term for the expression of a Run, the init term
\* of a Fun or the right-hand side of a rule
Materializes(m) ==
  /\ ~Halted(m)
  /\ Top(m).k \notin {"create_term", "create_term:kids"}
  /\ ~Halted(step(m))
  /\ Top(step(m)).k = "create_term"

\* the scratch entries the term that step(m) starts to build may find
OwnNames(m) ==
  LET ks == step(m).ks
  IN IF ks[Len(ks) - 1].k = "rule_built" THEN RuleNames(ks[Len(ks) - 1]) ELSE {}

ScratchBegin ==
  /\ status = "ok" /\ ~Running /\ nstmt < MaxScratchStmts
  /\ \E a \in ScratchStatements :
       /\ mark' = Machine(RT, <<KAction(a)>>)
       /\ last' = [Obs("begin", FALSE, draw, <<>>, [start |-> FALSE, own |-> {}, n |-> 0])
                     EXCEPT !.stmt = a]
  /\ UNCHANGED <<draw, heap, back, nuls, VARS_DATA, status, overflow_checks, nstmt, ntick,
                 nroll>>

ScratchStep ==
  /\ Running /\ ~Halted(mark) /\ last.T.n < MaxScratchSteps
  /\ mark' = step(mark)
  /\ last' = [last EXCEPT !.op = "step",
                          !.T = IF Materializes(mark)
                                  THEN [start |-> TRUE, own |-> OwnNames(mark), n |-> @.n + 1]
                                  ELSE [start |-> FALSE, own |-> {}, n |-> @.n + 1]]
  /\ UNCHANGED <<draw, heap, back, nuls, VARS_DATA, status, overflow_checks, nstmt, ntick,
                 nroll>>

NextScratch == ScratchBegin \/ ScratchStep \/ LoopEnd

SpecScratch == Init /\ [][NextScratch]_vars

\* C32: when a materialization starts (the expression of a Run, the init term
\* of a Fun, the right-hand side of a fired rule) no entry of VARS_DATA left by
\* an earlier materialization is still set: the table holds at most the
\* variables the fired rule has just stored.
C32_ScratchReset ==
  (last.op = "step" /\ last.T.start) => DOMAIN mark.rt.vars \subseteq last.T.own

-----------------------------------------------------------------------------
\* Reads through the layers draw, heap and the rollback stack (hvm.rs 766-848)

LayerCells == {1}
LayerFids == {Fn_F}
LayerCosts == {1, 2}

\* the runtimes one writer call of the Runtime makes of rt
LayerWritten(rt) ==
  {Runtime_write(rt, c, w) : c \in LayerCells, w \in HeapWords}
    \cup {write_disk(rt, f, w) : f \in LayerFids, w \in HeapWords}
    \cup {define_function(rt, f, build_func(FunF.func).val) : f \in LayerFids}
    \cup {define_function(rt, f, build_func(FunK.func).val) : f \in LayerFids}
    \cup {set_cost(rt, n) : n \in LayerCosts}

MaxLayerWrites == 4
MaxLayerTicks == 3

LayerWrite ==
  /\ status = "ok" /\ nstmt < MaxLayerWrites
  /\ \E rt \in LayerWritten(RT) :
       /\ Commit(rt)
       /\ last' = Obs("write", TRUE, rt.draw, <<>>, 0)
  /\ nstmt' = nstmt + 1
  /\ UNCHANGED <<overflow_checks, ntick, nroll, mark>>

\* heap.absorb(&mut draw, true); draw.clear() of a statement that succeeded
LayerCommit ==
  /\ status = "ok" /\ last.op = "write"
  /\ Commit(commit(RT))
  /\ last' = Obs("commit", TRUE, draw, <<>>, 0)
  /\ UNCHANGED <<overflow_checks, nstmt, ntick, nroll, mark>>

LayerTick ==
  /\ status = "ok" /\ ntick < MaxLayerTicks
  /\ Commit(tick(RT))
  /\ last' = Obs("tick", tick(RT).status = "ok", draw, <<>>, 0)
  /\ ntick' = ntick + 1
  /\ UNCHANGED <<overflow_checks, nstmt, nroll, mark>>

NextLayer == LayerWrite \/ LayerCommit \/ LayerTick

SpecLayer == Init /\ [][NextLayer]_vars

\* draw, heap, then the rollback stack from top to bottom
LayerSeq == <<draw, heap>> \o [i \in 1..Len(back) |-> back[i].head]

\* the first layer that Has a value, 0 when none has
FirstLayer(Has(_)) ==
  LET hits == {i \in 1..Len(LayerSeq) : Has(LayerSeq[i])}
  IN IF hits = {} THEN 0 ELSE CHOOSE i \in hits : \A j \in hits : i <= j

-----------------------------------------------------------------------------
\* The cost counter, one machine step per action

\* run { (λx x #1) }: reduces, then is no IO constructor
RunFailAfter == ARun(TApp(TLam(var_x, TVar(var_x)), TNum(1)))

var_f == 42

\* & a ~ = λf body; $(IO.done (a argm)): the copy of body meets the
\* superposition that dup-lam leaves for f
RunOverSup(body, argm) ==
  ARun(TDup(var_a, VAR_NONE, TLam(var_f, body), IoDone(TApp(TVar(var_a), argm))))

\* app-par, op2 over a superposition on either side, a call over a superposition
RunAppPar == RunOverSup(TApp(TVar(var_f), TNum(1)), TLam(var_y, TVar(var_y)))
RunOpPar0 == RunOverSup(TOp2(ADD, TVar(var_f), TNum(1)), TNum(2))
RunOpPar1 == RunOverSup(TOp2(ADD, TNum(1), TVar(var_f)), TNum(2))
RunCalPar == RunOverSup(TFun(Fn_Z, <<TVar(var_f)>>), TNum(0))

\* run { & a ~ = $(P #1 #2); $(IO.done !(Y a)) }: dup-ctr
RunDupY ==
  ARun(TDup(var_a, VAR_NONE, TCtr(Ct_P, <<TNum(1), TNum(2)>>),
            IoDone(TFun(Fn_Y, <<TVar(var_a)>>))))

CostStatements ==
  DupStatements \cup {FunI, FunZ, FunY, RunKeep, RunFailAfter, RunAdd, RunAppPar, RunOpPar0,
                      RunOpPar1, RunCalPar, RunDupY}

MaxCostStmts == 2
MaxCostSteps == 100

\* the step of m fires an interaction rule: reduce starts a rewrite
\* (hvm.rs 1406-1611), the call over a superposition (hvm.rs 1615-1643) or the
\* application of a matching rule (hvm.rs 1669-1708)
RuleFiring(m) ==
  /\ ~Halted(m)
  /\ Top(m).k = "reduce"
  /\ Len(step(m).ks) > 0
  /\ Top(step(m)).k \in {"exec", "create_term"}

\* the rewrite on top of the stack has not counted itself yet
Uncounted(m) ==
  IF ~Halted(m) /\ Top(m).k = "exec" /\ Top(m).prog # <<>> /\ Head(Top(m).prog).op = "cost"
    THEN 1 ELSE 0

CostBegin ==
  /\ status = "ok" /\ ~Running /\ nstmt < MaxCostStmts
  /\ \E a \in CostStatements :
       /\ mark' = Machine(RT, <<KAction(a)>>)
       /\ last' = [Obs("begin", FALSE, draw, <<>>, [fired |-> 0, n |-> 0, before |-> get_cost(RT)])
                     EXCEPT !.stmt = a]
  /\ UNCHANGED <<draw, heap, back, nuls, VARS_DATA, status, overflow_checks, nstmt, ntick,
                 nroll>>

CostStep ==
  /\ Running /\ ~Halted(mark) /\ last.T.n < MaxCostSteps
  /\ mark' = step(mark)
  /\ last' = [last EXCEPT !.op = "step",
                          !.T.n = @ + 1,
                          !.T.fired = IF RuleFiring(mark) THEN @ + 1 ELSE @]
  /\ UNCHANGED <<draw, heap, back, nuls, VARS_DATA, status, overflow_checks, nstmt, ntick,
                 nroll>>

CostEnd ==
  /\ Running /\ Halted(mark)
  /\ LET done(d) ==
           /\ Commit(d.rt)
           /\ last' = [Obs(last.stmt.t, d.ok, d.staged, d.log, last.T)
                         EXCEPT !.out = d.out, !.stmt = last.stmt]
     IN done(Statement_result(mark))
  /\ mark' = EmptyMap
  /\ nstmt' = nstmt + 1
  /\ UNCHANGED <<overflow_checks, ntick, nroll>>

NextCost == CostBegin \/ CostStep \/ CostEnd

SpecCost == Init /\ [][NextCost]_vars

\* C34: every fired interaction rule increases cost by exactly 1 and nothing
\* else changes cost: while a statement runs, the cost it has added is the
\* number of rules it has fired; after a statement that succeeded the cost is
\* the cost of before plus the rules it fired, after a statement that failed it
\* is the cost of before, so across statements cost never decreases.
C34_CostAccounting ==
  /\ (Running /\ ~Halted(mark)) => Spent(mark) = last.T.fired - Uncounted(mark)
  /\ (last.op \in {"Fun", "Ctr", "Run"} /\ status = "ok") =>
        get_cost(RT) = last.T.before + (IF last.ok THEN last.T.fired ELSE 0)

\* a statement that fired two rules or more has succeeded on top of the cost
\* of an earlier one
C34_Witness ==
  /\ last.op = "Run" /\ last.ok /\ status = "ok"
  /\ last.T.fired >= 2
  /\ last.T.before >= 1

-----------------------------------------------------------------------------
\* The size counter at the statement boundaries

\* fun F 0 { !(F) = #0 } = & a b = #1; $(P a b): on a heap whose cell 0 is
\* free the dup node of the init term is allocated at 0
FunDupInit ==
  AFun(Fn_F, 0, <<<<TFun(Fn_F, <<>>), TNum(0)>>>>,
       TDup(var_a, var_b, TNum(1), TCtr(Ct_P, <<TVar(var_a), TVar(var_b)>>)))

\* fun G 0 { !(G) = #0 } = λx x
FunLamInit ==
  AFun(Fn_G, 0, <<<<TFun(Fn_G, <<>>), TNum(0)>>>>, TLam(var_x, TVar(var_x)))

SizeStatements ==
  {CtrP, FunDupInit, FunLamInit, FunI, RunKeep, RunAdd, RunDupNum, RunFailAfter, RunAppPar}

MaxSizeStmts == 3

\* last.T is the size of before the statement
SizeStatement ==
  /\ status = "ok" /\ nstmt < MaxSizeStmts
  /\ \E a \in SizeStatements :
       LET done(d) ==
             /\ Commit(d.rt)
             /\ last' = [Obs(a.t, d.ok, d.staged, d.log, get_size(RT))
                           EXCEPT !.out = d.out, !.stmt = a]
       IN done(do_action(RT, a))
  /\ nstmt' = nstmt + 1
  /\ UNCHANGED <<overflow_checks, ntick, nroll, mark>>

NextSize == SizeStatement

SpecSize == Init /\ [][NextSize]_vars

\* the cells whose layered read is not empty
LiveCells(rt) ==
  {c \in UNION {DOMAIN Layers(rt)[i].data : i \in 1..Len(Layers(rt))} :
     Runtime_read(rt, c) # ZeroLnk}

\* C35: at every statement boundary the size counter read through the layers
\* equals the number of live heap cells, no clear was applied to a cell that
\* was not allocated, and a failed statement restores the size of before the
\* statement.
C35_SizeAccounting ==
  /\ status # "panic: nope"
  /\ status = "ok" => get_size(RT) = Cardinality(LiveCells(RT))
  /\ (status = "ok" /\ last.op \in {"Fun", "Ctr", "Run"} /\ ~last.ok) => get_size(RT) = last.T

-----------------------------------------------------------------------------
\* Back-pointers of variables and dup projections

\* no materialization, rewrite or collection is under way in m
Quiet(m) ==
  \A i \in 1..Len(m.ks) :
     m.ks[i].k \notin {"exec", "create_term", "create_term:kids", "rule_built",
                       "collect_erased", "collect", "collect_pop"}

\* the cells some layer of rt holds
Cells(rt) == UNION {DOMAIN Layers(rt)[i].data : i \in 1..Len(Layers(rt))}

\* the live cells of rt that hold a VAR, DP0 or DP1 link
Occurrences(rt) ==
  {c \in Cells(rt) : ask_lnk(rt, c) # ZeroLnk /\ get_tag(ask_lnk(rt, c)) \in {VAR, DP0, DP1}}

\* the binder slot of the link w: L + 0 for VAR and DP0, L + 1 for DP1
BinderSlot(w) == get_loc(w, IF get_tag(w) = DP1 THEN 1 ELSE 0)

\* C36: after materialization and after every rewrite step, for every live
\* cell c that holds VAR(L), DP0(col, L) or DP1(col, L), the binder slot (L + 0
\* for VAR and DP0, L + 1 for DP1) holds ARG(c).
C36_BackPointers ==
  (Running /\ ~Halted(mark) /\ Quiet(mark)) =>
     \A c \in Occurrences(mark.rt) :
        ask_lnk(mark.rt, BinderSlot(ask_lnk(mark.rt, c))) = Arg(c)

-----------------------------------------------------------------------------
\* Links and metadata keys of identifiers of the whole 120-bit name space.
\* An identifier is written U120(hi, lo) = hi * 2^60 + lo; the word has 8 tag
\* bits, 60 ext bits and 60 val bits (hvm.rs 151-152).

\* (tag * TAG) | (fun * EXT) | pos (hvm.rs 938-944): fun * EXT is
\* hi * 2^120 + lo * 2^60, which leaves the 128 bits when hi >= 2^8 (a panic
\* with overflow checks, a wrap without them), and whose bits above the ext
\* field are or-ed into the tag
link_u120(oc, tag, fun, pos) ==
  IF fun.hi >= 256 /\ oc
    THEN [status |-> "panic: attempt to multiply with overflow", word |-> ZeroLnk]
    ELSE [status |-> "ok", word |-> W(bit_op(OR, tag, fun.hi % 256), fun.lo, pos)]

Ctr_u120(oc, fun, pos) == link_u120(oc, CTR, fun, pos)
Fun_u120(oc, fun, pos) == link_u120(oc, FUN, fun, pos)

\* fid as u64, the key of the maps Disk, File and Arit (hvm.rs 390-449)
as_u64(fid) == U120(fid.hi % 16, fid.lo)

LinkHis == {0, 1, 16, 256}
LinkLos == {Ct_P, Fn_F}
LinkIds == {U120(hi, lo) : hi \in LinkHis, lo \in LinkLos}
LinkLocs == {0, 1, 5}
LinkArits == {1, 2}

MaxLinkDefs == 3

\* Ctr(id, p) or Fun(id, p)
LinkMake ==
  /\ status = "ok" /\ nstmt = 0
  /\ \E id \in LinkIds, p \in LinkLocs, tag \in {CTR, FUN} :
       LET r == link_u120(overflow_checks, tag, id, p)
       IN /\ status' = r.status
          /\ last' = [Obs("link", r.status = "ok", draw, <<>>, r.word)
                        EXCEPT !.stmt = [id |-> id, pos |-> p, tag |-> tag]]
  /\ UNCHANGED <<draw, heap, back, nuls, VARS_DATA, overflow_checks, nstmt, ntick, nroll, mark>>

\* set_arity(id, n) for an identifier that has no arity yet; mark remembers
\* the arity given to every identifier
LinkDefine ==
  /\ status = "ok" /\ nstmt < MaxLinkDefs
  /\ \E id \in LinkIds \ DOMAIN mark, n \in LinkArits :
       /\ draw' = Heap_write_arit(draw, as_u64(id), n)
       /\ mark' = (id :> n) @@ mark
       /\ last' = [Obs("set_arity", TRUE, draw, <<>>, ZeroLnk)
                     EXCEPT !.stmt = [id |-> id, pos |-> 0, tag |-> CTR]]
  /\ nstmt' = nstmt + 1
  /\ UNCHANGED <<heap, back, nuls, VARS_DATA, status, overflow_checks, ntick, nroll>>

NextLink == LinkMake \/ LinkDefine

SpecLink == Init /\ [][NextLink]_vars

\* C37: for every constructor or function identifier of the 120-bit name
\* space and every location p, Ctr(id, p) and Fun(id, p) are built without a
\* panic, their tag is CTR and FUN, their ext is id and their val is p; and the
\* arity map keyed by id answers, for every identifier, the arity that was
\* given to that identifier, and none for an identifier that was given none.
C37_LinkProjections ==
  /\ status = "ok"
  /\ last.op = "link" =>
        /\ get_tag(last.T) = last.stmt.tag
        /\ U120(0, get_ext(last.T)) = last.stmt.id
        /\ get_val(last.T) = last.stmt.pos
  /\ \A id \in LinkIds :
        /\ Heap_read_arit(draw, as_u64(id)).some <=> id \in DOMAIN mark
        /\ id \in DOMAIN mark => Heap_read_arit(draw, as_u64(id)).val = mark[id]

-----------------------------------------------------------------------------
\* alloc, link and clear on a heap whose cursor is at the start or close to
\* the end of the heap, as it is after HEAP_SIZE cells have been allocated

AllocNexts == {0, HEAP_SIZE - 2}
AllocSizes == {1, 2}
\* what fastrand::u64(..) % HEAP_SIZE yields when a probe fails
AllocRands == {<<0>>, <<HEAP_SIZE - 2>>}

MaxAllocOps == 4

AllocInit ==
  /\ overflow_checks \in BOOLEAN
  /\ draw = init_runtime(overflow_checks).draw
  /\ \E nx \in AllocNexts : heap = [init_runtime(overflow_checks).heap EXCEPT !.next = nx]
  /\ back = init_runtime(overflow_checks).back
  /\ nuls = init_runtime(overflow_checks).nuls
  /\ VARS_DATA = EmptyMap
  /\ status = "ok"
  /\ last = Obs("init", TRUE, init_heap, <<>>, 0)
  /\ nstmt = 0
  /\ ntick = 0
  /\ nroll = 0
  /\ mark = {}

RangeOf(r) == r.loc .. (r.loc + r.size - 1)

\* alloc(size); mark holds the ranges returned and not cleared since, last.T
\* what held when the call returned
AllocCall ==
  /\ status = "ok" /\ nstmt < MaxAllocOps
  /\ \E size \in AllocSizes, rand \in AllocRands :
       LET a == alloc([RT EXCEPT !.rand = rand], size)
           got == [loc |-> a.v, size |-> size]
       IN /\ Commit([a.rt EXCEPT !.rand = <<>>])
          /\ mark' = IF a.rt.status = "ok" THEN mark \cup {got} ELSE mark
          /\ last' = Obs("alloc", a.rt.status = "ok", draw, <<>>,
                         [loc |-> a.v, size |-> size,
                          empty |-> \A c \in RangeOf(got) : ask_lnk(RT, c) = ZeroLnk,
                          apart |-> \A r \in mark : RangeOf(r) \cap RangeOf(got) = {}])
  /\ nstmt' = nstmt + 1
  /\ UNCHANGED <<overflow_checks, ntick, nroll>>

\* the cells of a range returned by alloc are linked
AllocLink ==
  /\ status = "ok" /\ nstmt < MaxAllocOps
  /\ \E r \in mark :
       LET linked == IF r.size = 1 THEN link(RT, r.loc, Num(1))
                     ELSE link(link(RT, r.loc, Num(1)), r.loc + 1, Num(2))
       IN /\ \E c \in RangeOf(r) : ask_lnk(RT, c) = ZeroLnk
          /\ Commit(linked)
          /\ last' = Obs("link", TRUE, draw, <<>>, 0)
  /\ nstmt' = nstmt + 1
  /\ UNCHANGED <<overflow_checks, ntick, nroll, mark>>

\* clear(loc, size) of a range that was returned by alloc and linked
AllocClear ==
  /\ status = "ok" /\ nstmt < MaxAllocOps
  /\ \E r \in mark :
       /\ \A c \in RangeOf(r) : ask_lnk(RT, c) # ZeroLnk
       /\ Commit(clear(RT, r.loc, r.size))
       /\ mark' = mark \ {r}
       /\ last' = Obs("clear", TRUE, draw, <<>>, 0)
  /\ nstmt' = nstmt + 1
  /\ UNCHANGED <<overflow_checks, ntick, nroll>>

NextAlloc == AllocCall \/ AllocLink \/ AllocClear

SpecAlloc == AllocInit /\ [][NextAlloc]_vars

\* C38: alloc(n) with n > 0 returns an index i with i + n <= HEAP_SIZE whose n
\* cells were all empty at the time of the call, sets next to i + n, and the
\* returned range is disjoint from every range returned by an earlier alloc
\* that has not been cleared since.
C38_AllocationSafety ==
  (last.op = "alloc" /\ last.ok) =>
     /\ last.T.loc + last.T.size <= HEAP_SIZE
     /\ last.T.empty
     /\ get_next(RT) = last.T.loc + last.T.size
     /\ last.T.apart

----------------------------------------------------------------------------
\* Ticks and rollbacks alone, on the runtime init_runtime builds.

MaxPoolTicks == 18
MaxPoolRollbacks == 9
PoolTargets == {0, 1}

PoolTick == ntick < MaxPoolTicks /\ TickStep

PoolRollback == nroll < MaxPoolRollbacks /\ \E T \in PoolTargets : RollbackStep(T)

NextPool == PoolTick \/ PoolRollback

SpecPool == Init /\ [][NextPool]_vars

\* the heap objects the runtime owns: draw, heap, the snapshots and the pool
Owned == 2 + Len(back) + Len(nuls)

\* C39: over every sequence of tick() and rollback() calls the runtime owns
\* the same number of heap objects (draw, heap, the snapshots of back and the
\* pool nuls), and while the rollback stack holds at most NULS_INIT snapshots
\* tick() does not abort with "Not enough heaps." nor rollback() with
\* "Impossible error.".
C39_HeapPoolConservation ==
  /\ status = "ok" => Owned = NULS_INIT + 2
  /\ Len(back) <= NULS_INIT =>
       status \notin {"panic: Not enough heaps.", "panic: Impossible error."}

----------------------------------------------------------------------------
\* Fun statements naming the same function twice, with ticks between them.
\* `mark` keeps, for every defined function, what the runtime answered about
\* it right after the first Fun statement that defined it.

\* fun F 0 { !(F) = #1 } = #1
FunFirst == AFun(Fn_F, 0, <<<<TFun(Fn_F, <<>>), TNum(1)>>>>, TNum(1))

\* fun F 1 { !(F x) = #2 } = #2
FunAgain == AFun(Fn_F, 1, <<<<TFun(Fn_F, <<TVar(var_x)>>), TNum(2)>>>>, TNum(2))

\* fun G 1 { !(G x) = x } = #3
FunOther == AFun(Fn_G, 1, <<<<TFun(Fn_G, <<TVar(var_x)>>), TVar(var_x)>>>>, TNum(3))

RedefStatements == {FunFirst, FunAgain, FunOther, FunG, FunBad}
RedefFids == {Fn_F, Fn_G}

MaxRedefStmts == 4
MaxRedefTicks == 2

\* what the runtime answers about function f
FunView(rt, f) ==
  [func |-> get_func(rt, f), arit |-> get_arity(rt, f), disk |-> read_disk(rt, f)]

RedefFun ==
  /\ status = "ok" /\ nstmt < MaxRedefStmts
  /\ \E a \in RedefStatements :
       LET done(d) ==
             /\ Commit(d.rt)
             /\ last' = [Obs(a.t, d.ok, d.staged, d.log, 0) EXCEPT !.out = d.out, !.stmt = a]
             /\ mark' = IF a.name \notin DOMAIN mark /\ get_func(d.rt, a.name) # None
                          THEN (a.name :> FunView(d.rt, a.name)) @@ mark
                          ELSE mark
       IN done(do_action(RT, a))
  /\ nstmt' = nstmt + 1
  /\ UNCHANGED <<overflow_checks, ntick, nroll>>

RedefTick ==
  /\ status = "ok" /\ ntick < MaxRedefTicks
  /\ LET ticked(t) ==
           /\ Commit(t)
           /\ last' = Obs("tick", t.status = "ok", draw, <<>>, 0)
     IN ticked(tick(RT))
  /\ ntick' = ntick + 1
  /\ UNCHANGED <<overflow_checks, nstmt, nroll, mark>>

NextRedef == RedefFun \/ RedefTick

SpecRedef == Init /\ [][NextRedef]_vars

\* C40: once a Fun statement has defined f, get_func(f), get_arity(f) and the
\* disk entry of f keep answering what they answered after that statement,
\* over later Fun statements naming f and over ticks.
C40_NoRedefinition ==
  status = "ok" => \A f \in DOMAIN mark : FunView(RT, f) = mark[f]

====
